---- MODULE Spec2Model ----
(***************************************************************************)
(* mcp-fetch-page, src/mcp-server/server.js: the credential merge          *)
(* (CookieManager), the domain rule resolver (getDomainRuleForUrl), the    *)
(* page store (savePageContent) and the fetch pipeline                     *)
(* (handleFetchSpaWithCookies under the CallToolRequestSchema handler).    *)
(*                                                                         *)
(* A string the code inspects character by character (host names, file     *)
(* names, path names) is a sequence of one-character strings; a string it  *)
(* only tests for emptiness or copies is a TLA+ string, "" standing for    *)
(* every falsy value (undefined, null, "").  A number the code only tests  *)
(* for truthiness uses 0 for every falsy value.                            *)
(***************************************************************************)
EXTENDS Integers, Sequences, FiniteSets, TLC

VARIABLES
    cookieDir,       \* COOKIE_DIR on disk: file name -> file content
    scan,            \* [listing: the order fs.readdirSync listed COOKIE_DIR in at the last merge]
    cookieData,      \* the result of the last loadAndMergeAllCookies()
    prevScan,        \* scan of the merge before the last one
    prevCookieData,  \* result of the merge before the last one
    hostname,        \* the host name the expiry check is made for
    now,             \* the clock, in milliseconds since the epoch
    hasExpired,      \* [value: the last result of isCookieExpiredForDomain]
    domainRules,     \* the configured rules, in the iteration order of the object
    args,            \* the arguments of the request: [url, waitFor]
    domainRule,      \* the last result of getDomainRuleForUrl
    pc,              \* where the fetch invocation stands
    browser,         \* "none", "open" or "closed": the launched browser
    page,            \* what the site served: [status, finalUrl, html, title]
    pageClosed,      \* page.isClosed()
    cookiesSet,      \* the entries context.setCookie() took
    lsScript,        \* the localStorage buckets handed to evaluateOnNewDocument
    targetSelector,  \* targetSelector
    snapshot,        \* [content, title]: page.content() and page.title()
    cleanContent,    \* cleanContent
    thrown,          \* the error handleFetchSpaWithCookies threw: [at, message]
    saved,           \* the savePageContent calls made so far, in order
    result,          \* what the tool call returned to the caller
    pages,           \* PAGES_DIR on disk: file name -> content
    setItems,        \* [host, written]: what the registered script wrote into
                     \* the localStorage of the last document loaded
    raised,          \* the errors the waits, the scroll and the extraction ran into: [at, message]
    matched,         \* [elements]: what querySelectorAll(selector) gave the extraction
    request,         \* the number of the tools/call request being served
    trace,           \* the steps the invocation has taken, in order
    invocations,     \* the tools/call requests served side by side, in order of arrival
    scrolling        \* the scroll simulation: the heights, the position, the scrollTo calls made

\* JavaScript null / undefined where the code tests a whole object for it.
Null == [null |-> TRUE]

\* A value that has not been computed yet.
NotYet == [notYet |-> TRUE]

mergeVars == <<cookieDir, scan, cookieData, prevScan, prevCookieData>>

expiryVars == <<hostname, now, hasExpired>>

ruleVars == <<domainRules, args, domainRule>>

fetchVars == <<pc, browser, page, pageClosed, cookiesSet, lsScript, targetSelector,
               snapshot, cleanContent, thrown, saved, result, pages, setItems, raised,
               matched, request, trace, invocations, scrolling>>

vars == <<cookieDir, scan, cookieData, prevScan, prevCookieData,
          hostname, now, hasExpired, domainRules, args, domainRule,
          pc, browser, page, pageClosed, cookiesSet, lsScript, targetSelector,
          snapshot, cleanContent, thrown, saved, result, pages, setItems, raised,
          matched, request, trace, invocations, scrolling>>

\* The steps of a fetch invocation, in the order of the code.
Steps == <<"idle", "launch", "newPage", "setCookies", "registerLs", "navigate",
           "resolve", "scroll", "capture", "extract", "finish">>

\* The steps that come before step p.
StepsBefore(p) == SubSeq(Steps, 1, (CHOOSE i \in DOMAIN Steps : Steps[i] = p) - 1)

\* No fetch has been invoked.
FetchIdle ==
    /\ pc = "idle"
    /\ browser = "none"
    /\ page = NotYet
    /\ pageClosed = FALSE
    /\ cookiesSet = <<>>
    /\ lsScript = Null
    /\ targetSelector = NotYet
    /\ snapshot = NotYet
    /\ cleanContent = NotYet
    /\ thrown = NotYet
    /\ saved = <<>>
    /\ result = NotYet
    /\ pages = {}
    /\ setItems = NotYet
    /\ raised = {}
    /\ matched = NotYet
    /\ request = 1
    /\ trace = <<>>
    /\ invocations = <<>>
    /\ scrolling = NotYet

----------------------------------------------------------------------------
(* String primitives                                                       *)

S_www == <<"w", "w", "w", ".">>
S_m == <<"m", ".">>
S_mobile == <<"m", "o", "b", "i", "l", "e", ".">>
S_cookies == <<"_", "c", "o", "o", "k", "i", "e", "s">>
S_json == <<".", "j", "s", "o", "n">>
UpperLetters == <<"A", "B", "C", "D", "E", "F", "G", "H", "I", "J", "K", "L", "M", "N", "O", "P", "Q", "R", "S", "T", "U", "V", "W", "X", "Y", "Z">>
LowerLetters == <<"a", "b", "c", "d", "e", "f", "g", "h", "i", "j", "k", "l", "m", "n", "o", "p", "q", "r", "s", "t", "u", "v", "w", "x", "y", "z">>

\* String.prototype.startsWith
StartsWith(s, p) == Len(p) <= Len(s) /\ SubSeq(s, 1, Len(p)) = p

\* String.prototype.endsWith
EndsWith(s, p) == Len(p) <= Len(s) /\ SubSeq(s, Len(s) - Len(p) + 1, Len(s)) = p

\* String.prototype.slice(n)
Slice(s, n) == SubSeq(s, n + 1, Len(s))

\* String.prototype.includes
Includes(s, sub) == \E i \in 0..(Len(s) - Len(sub)) : SubSeq(s, i + 1, i + Len(sub)) = sub

\* s.replace(/^p/, '') for a literal prefix p
StripPrefix(s, p) == IF StartsWith(s, p) THEN Slice(s, Len(p)) ELSE s

\* Upper-case letter -> lower-case letter.
LowerOf ==
    [c \in {UpperLetters[i] : i \in 1..Len(UpperLetters)} |->
        LowerLetters[CHOOSE i \in 1..Len(UpperLetters) : UpperLetters[i] = c]]

LowerChar(c) == IF c \in DOMAIN LowerOf THEN LowerOf[c] ELSE c

\* String.prototype.toLowerCase
ToLowerCase(s) == [i \in 1..Len(s) |-> LowerChar(s[i])]

IsDigit(c) == c \in {"0", "1", "2", "3", "4", "5", "6", "7", "8", "9"}

IsSpace(c) == c \in {" ", "\t"}

----------------------------------------------------------------------------
(* CookieManager: file names                                               *)

\* The group (\s*\(\d+\)) of the file name patterns, matched against all of s.
IsDupMark(s) ==
    \E k \in 0..Len(s) :
        /\ \A i \in 1..k : IsSpace(s[i])
        /\ Len(s) >= k + 3
        /\ s[k + 1] = "("
        /\ s[Len(s)] = ")"
        /\ \A i \in (k + 2)..(Len(s) - 1) : IsDigit(s[i])

\* /_cookies(\s*\(\d+\))?\.json$/i matched from the first character of s.
IsCookieTail(s) ==
    /\ Len(s) >= Len(S_cookies) + Len(S_json)
    /\ ToLowerCase(SubSeq(s, 1, Len(S_cookies))) = S_cookies
    /\ ToLowerCase(SubSeq(s, Len(s) - Len(S_json) + 1, Len(s))) = S_json
    /\ LET mid == SubSeq(s, Len(S_cookies) + 1, Len(s) - Len(S_json)) IN
           mid = <<>> \/ IsDupMark(mid)

\* /_cookies(\s*\(\d+\))?\.json$/i.test(file)
IsCookieFileName(file) == \E i \in 0..Len(file) : IsCookieTail(Slice(file, i))

\* filename.match(/^(.*?)_cookies(\s*\(\d+\))?\.json$/i): group 1, the shortest
\* prefix the rest of the pattern matches after; <<>> when there is no match.
MatchGroup1(filename) ==
    IF IsCookieFileName(filename)
    THEN LET i == CHOOSE i \in 0..Len(filename) :
                      /\ IsCookieTail(Slice(filename, i))
                      /\ \A j \in 0..(i - 1) : ~IsCookieTail(Slice(filename, j))
         IN SubSeq(filename, 1, i)
    ELSE <<>>

\* sourceDomain of a file: <<>> stands for null.
SourceDomainOf(filename) ==
    LET m1 == MatchGroup1(filename) IN
        IF m1 # <<>> THEN StripPrefix(m1, S_www) ELSE <<>>

----------------------------------------------------------------------------
(* CookieManager: the merge                                                *)

\* The file could not be read or is not JSON.
Corrupt == [corrupt |-> TRUE]

\* loadCookiesFromFile: the parsed content, or null on any failure.
LoadCookiesFromFile(dir, name) ==
    IF dir[name] = Corrupt THEN Null ELSE dir[name]

\* listAllCookieFiles: the names of the listing that match the pattern, in
\* listing order.  A missing COOKIE_DIR lists as no file.
ListAllCookieFiles(listing) == SelectSeq(listing, IsCookieFileName)

\* The test without the value.
HasNameAndDomain(c) == c.name # "" /\ c.domain # <<>>

\* !c || !c.name || !c.value || !c.domain is false
IsValidCookie(c) == c.name # "" /\ c.value # "" /\ c.domain # <<>>

\* c.path || '/'
PathVal(c) == IF c.path # "" THEN c.path ELSE "/"

\* CookieKey with the path taken as stored, not defaulted.
CookieKeyStoredPath(c) == <<c.name, c.domain, c.path>>

\* `${c.name}|${c.domain}|${pathVal}`: the three parts, kept apart.
CookieKey(c) == <<c.name, c.domain, PathVal(c)>>

RECURSIVE MergeCookiesBreak(_, _, _)
\* MergeCookies leaving the loop at the first key already seen.
MergeCookiesBreak(acc, cookies, i) ==
    IF i > Len(cookies) THEN acc
    ELSE LET c == cookies[i] IN
         IF ~IsValidCookie(c) THEN MergeCookiesBreak(acc, cookies, i + 1)
         ELSE IF CookieKey(c) \in acc.seenKeys THEN acc
         ELSE MergeCookiesBreak(
                  [acc EXCEPT !.seenKeys = @ \cup {CookieKey(c)},
                              !.cookies = Append(@, [c EXCEPT !.path = PathVal(c)])],
                  cookies, i + 1)

RECURSIVE MergeCookies(_, _, _)
\* The loop over one file's cookies, from index i on.
MergeCookies(acc, cookies, i) ==
    IF i > Len(cookies) THEN acc
    ELSE LET c == cookies[i] IN
         IF ~IsValidCookie(c) \/ CookieKey(c) \in acc.seenKeys
         THEN MergeCookies(acc, cookies, i + 1)
         ELSE MergeCookies(
                  [acc EXCEPT !.seenKeys = @ \cup {CookieKey(c)},
                              !.cookies = Append(@, [c EXCEPT !.path = PathVal(c)])],
                  cookies, i + 1)

\* ObjectAssign keeping the target's value of a key both hold.
ObjectAssignKeepTarget(target, source) ==
    [k \in DOMAIN target \cup DOMAIN source |->
        IF k \in DOMAIN target THEN target[k] ELSE source[k]]

\* Object.assign(target, source) on key -> value objects
ObjectAssign(target, source) ==
    [k \in DOMAIN target \cup DOMAIN source |->
        IF k \in DOMAIN source THEN source[k] ELSE target[k]]

\* merged.localStorageByDomain[sourceDomain] gets the file's localStorage
\* assigned over it; a new domain is added after the ones already there.
AssignBucket(byDomain, sourceDomain, items) ==
    IF \E i \in 1..Len(byDomain) : byDomain[i].domain = sourceDomain
    THEN [i \in 1..Len(byDomain) |->
            IF byDomain[i].domain = sourceDomain
            THEN [byDomain[i] EXCEPT !.items = ObjectAssign(@, items)]
            ELSE byDomain[i]]
    ELSE Append(byDomain, [domain |-> sourceDomain, items |-> items])

\* The body of the loop over the files, for one file.
MergeFile(acc, dir, name) ==
    LET data == LoadCookiesFromFile(dir, name) IN
    IF data = Null THEN acc
    ELSE LET sourceDomain == SourceDomainOf(name)
             withCookies == MergeCookies(acc, data.cookies, 1)
         IN IF data.localStorage.present /\ sourceDomain # <<>>
            THEN [withCookies EXCEPT !.localStorageByDomain =
                      AssignBucket(@, sourceDomain, data.localStorage.items)]
            ELSE withCookies

RECURSIVE MergeFilesBreak(_, _, _, _)
\* MergeFiles leaving the loop at the first file that does not load.
MergeFilesBreak(acc, dir, files, i) ==
    IF i > Len(files) THEN acc
    ELSE IF LoadCookiesFromFile(dir, files[i]) = Null THEN acc
    ELSE MergeFilesBreak(MergeFile(acc, dir, files[i]), dir, files, i + 1)

RECURSIVE MergeFiles(_, _, _, _)
MergeFiles(acc, dir, files, i) ==
    IF i > Len(files) THEN acc
    ELSE MergeFiles(MergeFile(acc, dir, files[i]), dir, files, i + 1)

\* The test on cookies alone.
NoCookies(m) == Len(m.cookies) = 0

\* merged.cookies.length === 0 && Object.keys(merged.localStorageByDomain).length === 0
NoMaterial(m) == Len(m.cookies) = 0 /\ Len(m.localStorageByDomain) = 0

\* loadAndMergeAllCookies, COOKIE_DIR holding dir and listed as listing.
LoadAndMergeAllCookies(dir, listing) ==
    LET files == ListAllCookieFiles(listing) IN
    IF Len(files) = 0 THEN Null
    ELSE LET m == MergeFiles([cookies |-> <<>>, seenKeys |-> {},
                              localStorageByDomain |-> <<>>], dir, files, 1)
         IN IF NoMaterial(m)
            THEN Null
            ELSE [cookies |-> m.cookies,
                  localStorageByDomain |-> m.localStorageByDomain]

----------------------------------------------------------------------------
(* CookieManager: the expiry check                                         *)

\* Milliseconds in a second: new Date(cookie.expirationDate * 1000).
MsPerSecond == 1000

\* cleanHost.endsWith(cookieDomain): a suffix, no dot asked for before it.
DomainMatchesAnySuffix(cleanHost, cookieDomain) ==
    cleanHost = cookieDomain \/ EndsWith(cleanHost, cookieDomain)

\* matched
DomainMatches(cleanHost, cookieDomain) ==
    cleanHost = cookieDomain \/ EndsWith(cleanHost, <<".">> \o cookieDomain)

\* now > expireTime
IsPast(t, expirationDate) == t > expirationDate * MsPerSecond

\* cookieDomain
CleanCookieDomain(d) ==
    StripPrefix(StripPrefix(ToLowerCase(d), <<".">>), S_www)

RECURSIVE ExpiryLoop(_, _, _, _, _)
\* The loop over the cookies, from index i on; acc holds the counters.
ExpiryLoop(acc, cookies, cleanHost, t, i) ==
    IF i > Len(cookies) THEN acc
    ELSE LET cookie == cookies[i] IN
         IF cookie.domain = <<>> \/ cookie.expirationDate = 0
         THEN ExpiryLoop(acc, cookies, cleanHost, t, i + 1)
         ELSE IF ~DomainMatches(cleanHost, CleanCookieDomain(cookie.domain))
         THEN ExpiryLoop(acc, cookies, cleanHost, t, i + 1)
         ELSE IF IsPast(t, cookie.expirationDate)
         THEN ExpiryLoop([hasExpiredCookies |-> TRUE,
                          expiredCount |-> acc.expiredCount + 1,
                          totalWithExpiration |-> acc.totalWithExpiration + 1],
                         cookies, cleanHost, t, i + 1)
         ELSE ExpiryLoop([acc EXCEPT !.totalWithExpiration = @ + 1],
                         cookies, cleanHost, t, i + 1)

\* isCookieExpiredForDomain(data, host), the clock reading t.
IsCookieExpiredForDomain(data, host, t) ==
    IF data = Null \/ host = <<>> THEN FALSE
    ELSE LET cleanHost == StripPrefix(ToLowerCase(host), S_www)
             acc == ExpiryLoop([hasExpiredCookies |-> FALSE, expiredCount |-> 0,
                                totalWithExpiration |-> 0],
                               data.cookies, cleanHost, t, 1)
         IN acc.hasExpiredCookies /\ acc.totalWithExpiration > 0

----------------------------------------------------------------------------
(* The domain rule resolver                                                *)

\* A URL argument is [given, parses, host, pathname]: whether it is a
\* non-empty string, whether new URL(url) accepts it, and the host and the
\* path as written in it.

\* new URL(url).hostname: the parser lower-cases the host.
UrlHostname(url) == ToLowerCase(url.host)

\* { selector: null, blockedIfContains: [] }
EmptyRule == [selector |-> "", blockedIfContains |-> <<>>]

\* hostname.replace(/^(www\.|m\.|mobile\.)/, '')
MainDomain(h) ==
    IF StartsWith(h, S_www) THEN Slice(h, Len(S_www))
    ELSE IF StartsWith(h, S_m) THEN Slice(h, Len(S_m))
    ELSE IF StartsWith(h, S_mobile) THEN Slice(h, Len(S_mobile))
    ELSE h

\* domainRules[key] is set
HasRule(rules, key) == \E i \in 1..Len(rules) : rules[i].domain = key

\* domainRules[key]
RuleAt(rules, key) ==
    rules[CHOOSE i \in 1..Len(rules) : rules[i].domain = key].rule

\* hostname.includes(domain) || domain.includes(mainDomain)
PartialMatch(h, mainDomain, domain) ==
    Includes(h, domain) \/ Includes(domain, mainDomain)

\* The loop over Object.entries(domainRules) keeping the last match.
LastPartialMatch(rules, h, mainDomain) ==
    IF \E i \in 1..Len(rules) : PartialMatch(h, mainDomain, rules[i].domain)
    THEN CHOOSE i \in 1..Len(rules) :
             /\ PartialMatch(h, mainDomain, rules[i].domain)
             /\ \A j \in (i + 1)..Len(rules) :
                    ~PartialMatch(h, mainDomain, rules[j].domain)
    ELSE 0

\* The loop over Object.entries(domainRules): the index of the entry it
\* returns at, 0 when it runs to the end.
FirstPartialMatch(rules, h, mainDomain) ==
    IF \E i \in 1..Len(rules) : PartialMatch(h, mainDomain, rules[i].domain)
    THEN CHOOSE i \in 1..Len(rules) :
             /\ PartialMatch(h, mainDomain, rules[i].domain)
             /\ \A j \in 1..(i - 1) :
                    ~PartialMatch(h, mainDomain, rules[j].domain)
    ELSE 0

\* getDomainRuleForUrl(url), domainRules holding rules.
GetDomainRuleForUrl(rules, url) ==
    IF ~url.parses THEN EmptyRule
    ELSE LET h == ToLowerCase(UrlHostname(url))
             mainDomain == MainDomain(h)
             partial == FirstPartialMatch(rules, h, mainDomain)
         IN IF HasRule(rules, h) THEN RuleAt(rules, h)
            ELSE IF HasRule(rules, mainDomain) THEN RuleAt(rules, mainDomain)
            ELSE IF partial # 0 THEN rules[partial].rule
            ELSE EmptyRule

----------------------------------------------------------------------------
(* Inputs                                                                  *)

MaxFiles == 2

F_x == <<"x", ".", "c", "o", "m", "_", "c", "o", "o", "k", "i", "e", "s", ".", "j", "s", "o", "n">>
F_wwwx == <<"w", "w", "w", ".", "x", ".", "c", "o", "m", "_", "c", "o", "o", "k", "i", "e", "s", " ", "(", "1", ")", ".", "j", "s", "o", "n">>
F_y == <<"y", ".", "c", "o", "m", "_", "C", "O", "O", "K", "I", "E", "S", ".", "J", "S", "O", "N">>
F_plain == <<"x", ".", "c", "o", "m", ".", "j", "s", "o", "n">>
F_nodom == <<"_", "c", "o", "o", "k", "i", "e", "s", ".", "j", "s", "o", "n">>
D_x == <<"x", ".", "c", "o", "m">>
D_dotx == <<".", "x", ".", "c", "o", "m">>
D_wwwx == <<"w", "w", "w", ".", "x", ".", "c", "o", "m">>
D_subx == <<"s", "u", "b", ".", "x", ".", "c", "o", "m">>
D_y == <<"y", ".", "c", "o", "m">>
D_xx == <<"x", "x", ".", "c", "o", "m">>
D_mx == <<"m", ".", "x", ".", "c", "o", "m">>

FileNames == {F_x, F_wwwx, F_y, F_plain, F_nodom}

Cookie(n, v, d, p, e) ==
    [name |-> n, value |-> v, domain |-> d, path |-> p, expirationDate |-> e]

NoLocalStorage == [present |-> FALSE, items |-> <<>>]

LocalStorage(items) == [present |-> TRUE, items |-> items]

FileData(cs, ls) == [cookies |-> cs, localStorage |-> ls]

FileContents ==
    { Corrupt,
      FileData(<<Cookie("sid", "v1", D_dotx, "/", 0),
                 Cookie("tok", "t1", D_dotx, "/app", 0),
                 Cookie("sid", "v3", D_dotx, "", 0)>>,
               LocalStorage([k \in {"theme"} |-> "dark"])),
      FileData(<<Cookie("sid", "v2", D_dotx, "", 0),
                 Cookie("bad", "", D_dotx, "/", 0),
                 Cookie("uid", "u1", D_y, "/", 0)>>,
               LocalStorage([k \in {"theme", "lang"} |->
                                IF k = "theme" THEN "light" ELSE "en"])),
      FileData(<<Cookie("", "v1", D_dotx, "/", 0),
                 Cookie("nodomain", "v1", <<>>, "/", 0)>>,
               NoLocalStorage),
      FileData(<<>>, LocalStorage(<<>>)) }

\* COOKIE_DIR with at most MaxFiles files.
CookieDirs ==
    UNION { [N -> FileContents] :
              N \in {S \in SUBSET FileNames : Cardinality(S) <= MaxFiles} }

\* The orders readdir may list a directory in.
Listings(dir) ==
    LET n == Cardinality(DOMAIN dir) IN
        {s \in [1..n -> DOMAIN dir] : \A i, j \in 1..n : s[i] = s[j] => i = j}

----------------------------------------------------------------------------
(* The merge on its own                                                    *)

InitMerge ==
    /\ cookieDir \in CookieDirs
    /\ scan = NotYet
    /\ cookieData = NotYet
    /\ prevScan = NotYet
    /\ prevCookieData = NotYet
    /\ hostname = <<>>
    /\ now = 0
    /\ hasExpired = NotYet
    /\ domainRules = <<>>
    /\ args = NotYet
    /\ domainRule = NotYet
    /\ FetchIdle

\* One call of loadAndMergeAllCookies; the files on disk do not change.
MergeOnce ==
    /\ \E listing \in Listings(cookieDir) :
          /\ scan' = [listing |-> listing]
          /\ cookieData' = LoadAndMergeAllCookies(cookieDir, listing)
    /\ prevScan' = scan
    /\ prevCookieData' = cookieData
    /\ UNCHANGED cookieDir
    /\ UNCHANGED expiryVars
    /\ UNCHANGED ruleVars
    /\ UNCHANGED fetchVars

NextMerge == MergeOnce

SpecMerge == InitMerge /\ [][NextMerge]_vars

----------------------------------------------------------------------------
(* What the merge claims are stated in                                     *)

\* A merge has been made.
Merged == scan # NotYet

\* The files the last merge read, in scan order: the ones named as
\* credential files.
ScannedFiles == SelectSeq(scan.listing, IsCookieFileName)

Readable(name) == cookieDir[name] # Corrupt

\* A cookie entry with a name, a value and a domain.
WellFormed(c) == c.name # "" /\ c.value # "" /\ c.domain # <<>>

\* The identity key (name, domain, path), a missing path taken as "/".
IdentityKey(c) == <<c.name, c.domain, IF c.path = "" THEN "/" ELSE c.path>>

\* The well-formed cookies a file holds, in file order.
CookiesIn(name) ==
    IF Readable(name) THEN SelectSeq(cookieDir[name].cookies, WellFormed) ELSE <<>>

HasKey(name, k) ==
    \E i \in 1..Len(CookiesIn(name)) : IdentityKey(CookiesIn(name)[i]) = k

\* The first entry of a file for key k, its path the key's.
FirstEntry(name, k) ==
    LET cs == CookiesIn(name)
        i == CHOOSE i \in 1..Len(cs) :
                 /\ IdentityKey(cs[i]) = k
                 /\ \A j \in 1..(i - 1) : IdentityKey(cs[j]) # k
    IN [cs[i] EXCEPT !.path = k[3]]

MergedCookies(m) == IF m \in {Null, NotYet} THEN <<>> ELSE m.cookies

MergedBuckets(m) == IF m \in {Null, NotYet} THEN <<>> ELSE m.localStorageByDomain

\* The localStorage a file contributes: it is readable, holds a localStorage
\* object, and its name derives a source domain.
HasBucket(name) ==
    /\ Readable(name)
    /\ cookieDir[name].localStorage.present
    /\ SourceDomainOf(name) # <<>>

BucketItems(name) == cookieDir[name].localStorage.items

----------------------------------------------------------------------------
----------------------------------------------------------------------------
(* C4: for every derived source domain and every localStorage key, the     *)
(* merged value is the one of the last file in scan order, among the files *)
(* deriving that domain, that holds the key; keys only earlier files hold  *)
(* are retained, and the merged buckets hold nothing else.                 *)
Thm_C4_LastFileWins ==
    Merged =>
        LET bs == MergedBuckets(cookieData)
            files == ScannedFiles
        IN /\ \A f \in 1..Len(files) :
                  HasBucket(files[f]) =>
                      \E b \in 1..Len(bs) :
                          /\ bs[b].domain = SourceDomainOf(files[f])
                          /\ DOMAIN BucketItems(files[f]) \subseteq DOMAIN bs[b].items
           /\ \A b \in 1..Len(bs) :
                  /\ \A c \in 1..Len(bs) : bs[b].domain = bs[c].domain => b = c
                  /\ \E f \in 1..Len(files) :
                         HasBucket(files[f]) /\ SourceDomainOf(files[f]) = bs[b].domain
                  /\ \A k \in DOMAIN bs[b].items :
                         \E f \in 1..Len(files) :
                             /\ HasBucket(files[f])
                             /\ SourceDomainOf(files[f]) = bs[b].domain
                             /\ k \in DOMAIN BucketItems(files[f])
                             /\ bs[b].items[k] = BucketItems(files[f])[k]
                             /\ \A g \in (f + 1)..Len(files) :
                                    ~(/\ HasBucket(files[g])
                                      /\ SourceDomainOf(files[g]) = bs[b].domain
                                      /\ k \in DOMAIN BucketItems(files[g]))

\* Two scanned files derive the same domain and give one key different
\* values, and a third key comes from the earlier file alone.
Wit_C4_SameDomainOverlap ==
    /\ Merged
    /\ \E f, g \in 1..Len(ScannedFiles) :
          /\ f < g
          /\ HasBucket(ScannedFiles[f]) /\ HasBucket(ScannedFiles[g])
          /\ ScannedFiles[f] # ScannedFiles[g]
          /\ SourceDomainOf(ScannedFiles[f]) = SourceDomainOf(ScannedFiles[g])
          /\ \E k \in DOMAIN BucketItems(ScannedFiles[f]) \cap DOMAIN BucketItems(ScannedFiles[g]) :
                BucketItems(ScannedFiles[f])[k] # BucketItems(ScannedFiles[g])[k]
          /\ DOMAIN BucketItems(ScannedFiles[f]) \ DOMAIN BucketItems(ScannedFiles[g]) # {}

----------------------------------------------------------------------------
MergedKeys(m) == {IdentityKey(MergedCookies(m)[i]) : i \in 1..Len(MergedCookies(m))}

----------------------------------------------------------------------------
(* C6: a credential file that cannot be read or parsed is skipped: the     *)
(* merged result is the merge of the remaining files in the same order     *)
(* (the merge yields a value, null or a set, in every case).               *)
Thm_C6_CorruptFileSkipped ==
    Merged =>
        cookieData = LoadAndMergeAllCookies(cookieDir, SelectSeq(scan.listing, Readable))

\* A corrupt credential file was scanned before a readable one and the
\* merge still produced a set.
Wit_C6_CorruptThenGood ==
    /\ Merged
    /\ cookieData # Null
    /\ \E f, g \in 1..Len(ScannedFiles) :
          f < g /\ ~Readable(ScannedFiles[f]) /\ Readable(ScannedFiles[g])

----------------------------------------------------------------------------
(* The expiry check on its own                                             *)

MaxExpiry == 2

MaxExpiryCookies == 2

\* Cookie domains as the browser reports them and expiration dates in
\* seconds, 0 for a session cookie.
ExpiryCookies ==
    { Cookie("sid", "v1", d, "/", e) :
        d \in {D_dotx, D_wwwx, D_y, <<>>}, e \in 0..MaxExpiry }

ExpirySets ==
    {Null} \cup
    { [cookies |-> cs, localStorageByDomain |-> <<>>] :
        cs \in UNION { [1..n -> ExpiryCookies] : n \in 0..MaxExpiryCookies } }

Hostnames == {D_x, D_wwwx, D_subx, D_xx, D_y, <<>>}

\* The clock readings just before, at and just after each expiration date.
Instants == { e * MsPerSecond + d : e \in 1..MaxExpiry, d \in {-1, 0, 1} }

InitExpiry ==
    /\ cookieData \in ExpirySets
    /\ hostname \in Hostnames
    /\ now \in Instants
    /\ hasExpired = NotYet
    /\ cookieDir = <<>>
    /\ scan = NotYet
    /\ prevScan = NotYet
    /\ prevCookieData = NotYet
    /\ domainRules = <<>>
    /\ args = NotYet
    /\ domainRule = NotYet
    /\ FetchIdle

\* One call of isCookieExpiredForDomain.
CheckExpiry ==
    /\ hasExpired' = [value |-> IsCookieExpiredForDomain(cookieData, hostname, now)]
    /\ UNCHANGED <<hostname, now>>
    /\ UNCHANGED mergeVars
    /\ UNCHANGED ruleVars
    /\ UNCHANGED fetchVars

\* Time passes.
Tick ==
    /\ \E t \in Instants : t > now /\ now' = t
    /\ hasExpired' = NotYet
    /\ UNCHANGED hostname
    /\ UNCHANGED mergeVars
    /\ UNCHANGED ruleVars
    /\ UNCHANGED fetchVars

NextExpiry == CheckExpiry \/ Tick

SpecExpiry == InitExpiry /\ [][NextExpiry]_vars

\* The domain with a leading dot, then a leading www., stripped.
BareDomain(d) ==
    LET nodot == IF Len(d) > 0 /\ d[1] = "." THEN Tail(d) ELSE d
    IN IF Len(nodot) >= 4 /\ SubSeq(nodot, 1, 4) = <<"w", "w", "w", ".">>
       THEN SubSeq(nodot, 5, Len(nodot)) ELSE nodot

\* The host name with a leading www. stripped.
BareHost(h) ==
    IF Len(h) >= 4 /\ SubSeq(h, 1, 4) = <<"w", "w", "w", ".">>
    THEN SubSeq(h, 5, Len(h)) ELSE h

\* d is h, or h ends with a dot followed by d.
EqualOrDotSuffix(h, d) ==
    \/ h = d
    \/ /\ Len(h) > Len(d)
       /\ h[Len(h) - Len(d)] = "."
       /\ \A i \in 1..Len(d) : h[Len(h) - Len(d) + i] = d[i]

\* The cookie has an expiration timestamp, its domain matches the host
\* name, and it expired strictly before t.
ExpiredFor(c, h, t) ==
    /\ c.expirationDate # 0
    /\ c.domain # <<>>
    /\ EqualOrDotSuffix(BareHost(h), BareDomain(c.domain))
    /\ c.expirationDate * 1000 < t

----------------------------------------------------------------------------
(* C8: the domain expiry check returns true if and only if the set holds a *)
(* cookie that has an expiration timestamp, whose domain (leading dot and  *)
(* www. stripped) is the host name (www. stripped) or a dot-delimited      *)
(* suffix of it, and whose expiration is strictly before the evaluation    *)
(* time.                                                                   *)
Thm_C8_ExpiredIffMatchingPastCookie ==
    hasExpired # NotYet =>
        (hasExpired.value <=>
            /\ cookieData # Null
            /\ hostname # <<>>
            /\ \E i \in 1..Len(cookieData.cookies) :
                   ExpiredFor(cookieData.cookies[i], hostname, now))

\* The check returned true for a sub-domain host although the set also
\* holds a session cookie or a cookie of another domain.
Wit_C8_ExpiredOnSubdomain ==
    /\ hasExpired # NotYet
    /\ hasExpired.value
    /\ hostname = D_subx
    /\ \E i \in 1..Len(cookieData.cookies) :
          ~ExpiredFor(cookieData.cookies[i], hostname, now)

----------------------------------------------------------------------------
(* The domain rule resolver on its own                                     *)

MaxRules == 2

D_com == <<"c", "o", "m">>
D_mobx == <<"m", "o", "b", "i", "l", "e", ".", "x", ".", "c", "o", "m">>
D_WWWX == <<"W", "W", "W", ".", "X", ".", "c", "o", "m">>
P_root == <<"/">>

\* The configured rule of a key: its selector and marker name the key.
M_signin == <<"S", "i", "g", "n", " ", "I", "n">>
M_captcha == <<"c", "a", "p", "t", "c", "h", "a">>

RuleFor(key) ==
    IF key = D_x THEN [selector |-> "#x", blockedIfContains |-> <<M_signin>>]
    ELSE IF key = D_wwwx THEN [selector |-> "#wwwx", blockedIfContains |-> <<>>]
    ELSE IF key = D_subx THEN [selector |-> "", blockedIfContains |-> <<M_captcha, M_signin>>]
    ELSE IF key = D_com THEN [selector |-> "#com", blockedIfContains |-> <<M_captcha>>]
    ELSE [selector |-> "#y", blockedIfContains |-> <<M_captcha>>]

RuleKeys == {D_x, D_wwwx, D_subx, D_com, D_y}

\* The tables of at most MaxRules rules, every key once, in every order.
RuleTables ==
    UNION { {t \in [1..n -> {[domain |-> k, rule |-> RuleFor(k)] : k \in RuleKeys}] :
                \A i, j \in 1..n : t[i].domain = t[j].domain => i = j} :
            n \in 0..MaxRules }

Url(h, p) == [given |-> TRUE, parses |-> TRUE, host |-> h, pathname |-> p]

\* A string new URL() rejects.
BadUrl == [given |-> TRUE, parses |-> FALSE, host |-> <<>>, pathname |-> <<>>]

RuleUrls ==
    {BadUrl} \cup
    {Url(h, P_root) : h \in {D_x, D_wwwx, D_WWWX, D_mx, D_mobx, D_subx, D_xx, D_y}}

InitRule ==
    /\ domainRules \in RuleTables
    /\ args \in {[given |-> TRUE, url |-> u, waitFor |-> ""] : u \in RuleUrls}
    /\ domainRule = NotYet
    /\ cookieDir = <<>>
    /\ scan = NotYet
    /\ cookieData = NotYet
    /\ prevScan = NotYet
    /\ prevCookieData = NotYet
    /\ hostname = <<>>
    /\ now = 0
    /\ hasExpired = NotYet
    /\ FetchIdle

\* One call of getDomainRuleForUrl.
ResolveRule ==
    /\ domainRule' = GetDomainRuleForUrl(domainRules, args.url)
    /\ UNCHANGED <<domainRules, args>>
    /\ UNCHANGED mergeVars
    /\ UNCHANGED expiryVars
    /\ UNCHANGED fetchVars

NextRule == ResolveRule

SpecRule == InitRule /\ [][NextRule]_vars

\* The rule configured for key k, if any.
Configured(k) == \E i \in 1..Len(domainRules) : domainRules[i].domain = k

ConfiguredRule(k) ==
    domainRules[CHOOSE i \in 1..Len(domainRules) : domainRules[i].domain = k].rule

\* s holds sub as a run of consecutive characters.
Contains(s, sub) ==
    \E off \in 0..(Len(s) - Len(sub)) : \A i \in 1..Len(sub) : s[off + i] = sub[i]

\* h without one leading www., m. or mobile.
WithoutPrefix(h) ==
    LET cut(n) == [i \in 1..(Len(h) - n) |-> h[i + n]]
        starts(p) == Len(h) >= Len(p) /\ \A i \in 1..Len(p) : h[i] = p[i]
    IN IF starts(<<"w", "w", "w", ".">>) THEN cut(4)
       ELSE IF starts(<<"m", ".">>) THEN cut(2)
       ELSE IF starts(<<"m", "o", "b", "i", "l", "e", ".">>) THEN cut(7)
       ELSE h

\* Stage (c) matches the i-th configured key.
StageC(i, h) ==
    \/ Contains(h, domainRules[i].domain)
    \/ Contains(domainRules[i].domain, WithoutPrefix(h))

----------------------------------------------------------------------------
(* C9: the resolver returns the rule of the first stage that matches:      *)
(* exact host name, host name with a leading www./m./mobile. stripped,     *)
(* then the first configured key in iteration order that is contained in   *)
(* the host name or contains the stripped host name; the empty rule when   *)
(* the URL does not parse or no stage matches.                             *)
Thm_C9_FirstStageWins ==
    domainRule # NotYet =>
        IF ~args.url.parses THEN domainRule = EmptyRule
        ELSE LET h == ToLowerCase(args.url.host) IN
             IF Configured(h) THEN domainRule = ConfiguredRule(h)
             ELSE IF Configured(WithoutPrefix(h))
             THEN domainRule = ConfiguredRule(WithoutPrefix(h))
             ELSE IF \E i \in 1..Len(domainRules) : StageC(i, h)
             THEN \E i \in 1..Len(domainRules) :
                      /\ StageC(i, h)
                      /\ \A j \in 1..(i - 1) : ~StageC(j, h)
                      /\ domainRule = domainRules[i].rule
             ELSE domainRule = EmptyRule /\ domainRule.selector = ""
                  /\ domainRule.blockedIfContains = <<>>

\* An earlier stage decided although the containment scan, taken alone,
\* would have returned another rule.
Wit_C9_EarlierStageDecides ==
    /\ domainRule # NotYet
    /\ args.url.parses
    /\ LET h == ToLowerCase(args.url.host) IN
          /\ Configured(h) \/ Configured(WithoutPrefix(h))
          /\ \E i \in 1..Len(domainRules) :
                /\ StageC(i, h)
                /\ \A j \in 1..(i - 1) : ~StageC(j, h)
                /\ domainRule # domainRules[i].rule

-----------------------------------------------------------------------------
(* The page store (savePageContent)                                        *)

S_error == <<"_", "E", "R", "R", "O", "R">>
S_md == <<".", "m", "d">>
S_blank == <<"b", "l", "a", "n", "k">>

\* 'about:blank' as new URL() reads it: no host, the path "blank".
AboutBlank == [given |-> TRUE, parses |-> TRUE, host |-> <<>>, pathname |-> S_blank]

\* new URL(url).pathname
\* The path as the URL parser writes it: a space percent-encoded.
RECURSIVE EncodePath(_)
EncodePath(p) ==
    IF p = <<>> THEN <<>>
    ELSE (IF Head(p) = " " THEN <<"%", "2", "0">> ELSE <<Head(p)>>) \o EncodePath(Tail(p))

UrlPathname(url) == EncodePath(url.pathname)

LowerSet == {LowerLetters[i] : i \in 1..Len(LowerLetters)}

\* One character through replace(/[^a-zA-Z0-9.-]/g, '_')
SafeChar(c) ==
    IF c \in DOMAIN LowerOf \/ c \in LowerSet \/ IsDigit(c) \/ c \in {".", "-"}
    THEN c ELSE "_"

\* urlObj.pathname.replace(/[^a-zA-Z0-9.-]/g, '_')
SafePathname(p) == [i \in 1..Len(p) |-> SafeChar(p[i])]

\* new Date().toISOString()...split('T')[0]: one stamp per UTC day, written
\* here as the number of the day.
MsPerDay == 86400000

DateStamp(t) == ToString(t \div MsPerDay)

\* The file name without a mark of the status.
NoStatusSuffix(isError) == <<>>

\* isError ? '_ERROR' : ''
StatusSuffix(isError) == IF isError THEN S_error ELSE <<>>

\* `${domain}${pathname}_${timestamp}${statusSuffix}.md`
PageFileName(url, isError, t) ==
    UrlHostname(url) \o SafePathname(UrlPathname(url)) \o <<"_", DateStamp(t)>>
        \o StatusSuffix(isError) \o S_md

\* fs.writeFileSync(filePath, textContent): creates or replaces the file.
WriteFileSync(store, name, content) ==
    {f \in store : f.name # name} \cup {[name |-> name, content |-> content]}

\* What the file system does to a mkdir or a write.
IoOutcomes == {"ok", "error"}

\* savePageContent with the url test left out.
SavePageContentAnyUrl(store, url, content, isError, t, io) ==
    IF io # "ok"
    THEN [ok |-> FALSE, path |-> <<>>, pages |-> store]
    ELSE LET filename == PageFileName(url, isError, t)
         IN [ok |-> TRUE, path |-> filename,
             pages |-> WriteFileSync(store, filename, content)]

\* savePageContent(url, content, title, isError) at the clock reading t, the
\* file system answering io.  [ok, path] is the returned path (ok is FALSE
\* for null) and pages the directory afterwards.
SavePageContent(store, url, content, isError, t, io) ==
    IF io # "ok" \/ ~url.parses
    THEN [ok |-> FALSE, path |-> <<>>, pages |-> store]
    ELSE LET filename == PageFileName(url, isError, t)
         IN [ok |-> TRUE, path |-> filename,
             pages |-> WriteFileSync(store, filename, content)]

-----------------------------------------------------------------------------
(* The fetch pipeline (handleFetchSpaWithCookies and the CallTool handler) *)

S_hr == <<"\n", "<", "h", "r", "/", ">", "\n">>
S_detached == <<"d", "e", "t", "a", "c", "h", "e", "d">>
S_http == <<"H", "T", "T", "P", " ">>
S_colon == <<":", " ">>
S_navFailed == <<"n", "a", "v", "i", "g", "a", "t", "i", "o", "n", " ", "f", "a", "i", "l", "e", "d", ":", " ">>

\* The status from which a response counts as a failed navigation.
HttpErrorStatus == 400

\* `HTTP ${response.status()}: ${response.statusText()}`
\* (the status number is one element of the sequence)
HttpErrorMessage(status, statusText) ==
    S_http \o <<ToString(status)>> \o S_colon \o statusText

\* The message of the error the navigation step rethrows; S_navFailed stands
\* for the literal prefix of the source.
NavigationErrorMessage(message) == S_navFailed \o message

\* A test every message passes.
IsAnyMessage(message) == Len(message) >= 0

\* error.message.includes('detached')
IsDetached(message) == Includes(message, S_detached)

\* The entry built for one cookie: path defaulted, expires when dated.
CookieEntry(c) ==
    [name |-> c.name, value |-> c.value, domain |-> c.domain,
     path |-> PathVal(c), expires |-> c.expirationDate]

\* cookiesToSet: the entries of the cookies having name, value and domain.
CookiesToSet(cookies) ==
    LET kept == SelectSeq(cookies, IsValidCookie)
    IN [i \in 1..Len(kept) |-> CookieEntry(kept[i])]

\* cookieData && cookieData.cookies && cookieData.cookies.length > 0
HasCookies(data) == data # Null /\ Len(data.cookies) > 0

\* cookieData && cookieData.localStorageByDomain && Object.keys(...).length > 0
HasLocalStorage(data) == data # Null /\ Len(data.localStorageByDomain) > 0

\* host === d || host.endsWith(d)
HostMatchesAnySuffix(host, d) == host = d \/ EndsWith(host, d)

\* host === d || host.endsWith('.' + d)
HostMatches(host, d) == host = d \/ EndsWith(host, <<".">> \o d)

\* candidates: the keys of byDomain, www. stripped, that match the host.
Candidates(byDomain, host) ==
    LET ds == [i \in 1..Len(byDomain) |-> StripPrefix(byDomain[i].domain, S_www)]
    IN SelectSeq(ds, LAMBDA d : HostMatches(host, d))

\* byDomain[d] || {}
BucketOf(byDomain, d) ==
    IF \E i \in 1..Len(byDomain) : byDomain[i].domain = d
    THEN byDomain[CHOOSE i \in 1..Len(byDomain) : byDomain[i].domain = d].items
    ELSE <<>>

\* The script registered with evaluateOnNewDocument, run in a document whose
\* location.hostname is h: the objects whose entries it passes to setItem, in order.
StorageScript(byDomain, h) ==
    LET host == StripPrefix(h, S_www)
        candidates == Candidates(byDomain, host)
    IN [i \in 1..Len(candidates) |-> BucketOf(byDomain, candidates[i])]

\* A document of hostname h loads with the script registered.
LoadDocument(byDomain, h) ==
    [host |-> h, written |-> StorageScript(byDomain, h)]

\* domainRule.selector || waitFor
TargetSelectorRuleFirst(waitFor, rule) ==
    IF rule.selector # "" THEN rule.selector ELSE waitFor

\* waitFor || domainRule.selector
TargetSelector(waitFor, rule) ==
    IF waitFor # "" THEN waitFor ELSE rule.selector

\* elements.map(el => el.innerHTML || '').join('')
RECURSIVE JoinPlain(_, _)
JoinPlain(elements, i) ==
    IF i > Len(elements) THEN <<>>
    ELSE elements[i] \o JoinPlain(elements, i + 1)

\* elements.map(el => el.innerHTML || '').join('\n<hr/>\n')
RECURSIVE JoinHr(_, _)
JoinHr(elements, i) ==
    IF i > Len(elements) THEN <<>>
    ELSE IF i = Len(elements) THEN elements[i]
    ELSE elements[i] \o S_hr \o JoinHr(elements, i + 1)

\* The html the in-page extraction returns: the matched elements joined, or
\* the body when there is no selector, no match or nothing in the matches.
ExtractedHtml(selector, elements, body) ==
    LET html == IF selector # "" /\ Len(elements) > 0 THEN JoinHr(elements, 1) ELSE <<>>
    IN IF html = <<>> THEN body ELSE html

\* html2md4llm, an external package: for the markup used here, the text
\* outside the tags.
RECURSIVE StripTags(_, _, _)
StripTags(html, i, inTag) ==
    IF i > Len(html) THEN <<>>
    ELSE IF html[i] = "<" THEN StripTags(html, i + 1, TRUE)
    ELSE IF html[i] = ">" THEN StripTags(html, i + 1, FALSE)
    ELSE IF inTag THEN StripTags(html, i + 1, TRUE)
    ELSE <<html[i]>> \o StripTags(html, i + 1, FALSE)

Html2md4llm(html) == StripTags(html, 1, FALSE)

\* bodyText.replace(/\n{3,}/g, '\n\n'): run counts the newlines just before i.
RECURSIVE CompressFrom(_, _, _)
CompressFrom(s, i, run) ==
    IF i > Len(s) THEN <<>>
    ELSE IF s[i] = "\n"
         THEN (IF run >= 2 THEN <<>> ELSE <<"\n">>)
                  \o CompressFrom(s, i + 1, run + 1)
         ELSE <<s[i]>> \o CompressFrom(s, i + 1, 0)

\* The body with its blank lines left as they are.
BlankLinesKept(s) == s

CompressBlankLines(s) == CompressFrom(s, 1, 0)

\* One character through replace(/\r?\n/g, ' ')
NewlineToSpace(c) == IF c = "\n" THEN " " ELSE c

RECURSIVE TrimLeft(_)
TrimLeft(s) ==
    IF Len(s) > 0 /\ (IsSpace(s[1]) \/ s[1] = "\n") THEN TrimLeft(Tail(s)) ELSE s

RECURSIVE TrimRight(_)
TrimRight(s) ==
    IF Len(s) > 0 /\ (IsSpace(s[Len(s)]) \/ s[Len(s)] = "\n")
    THEN TrimRight(SubSeq(s, 1, Len(s) - 1)) ELSE s

\* String(value ?? '').replace(/\r?\n/g, ' ').trim()
ToYamlPlainString(value) ==
    TrimRight(TrimLeft([i \in 1..Len(value) |-> NewlineToSpace(value[i])]))

\* The notice decided by the markers or by the expiry check.
NeedsLoginStateOrExpired(rule, content) ==
    \/ hasExpired = [value |-> TRUE]
    \/ \E i \in 1..Len(rule.blockedIfContains) :
          Includes(ToLowerCase(content), ToLowerCase(rule.blockedIfContains[i]))

\* blockedIfContains.some(marker => htmlForDetection.includes(marker.toLowerCase()))
NeedsLoginStateCaseSensitive(rule, content) ==
    \E i \in 1..Len(rule.blockedIfContains) :
        Includes(content, rule.blockedIfContains[i])

NeedsLoginState(rule, content) ==
    \E i \in 1..Len(rule.blockedIfContains) :
        Includes(ToLowerCase(content), ToLowerCase(rule.blockedIfContains[i]))

\* The text of a successful fetch with the final_url line always there.
DocumentAlwaysFinalUrl(cleanTitle, url, finalUrl, tips, bodyText) ==
    [kind |-> "document",
     title |-> ToYamlPlainString(cleanTitle),
     start_url |-> url,
     final_url |-> <<finalUrl>>,
     cookie_expired_tips |-> tips,
     body |-> CompressBlankLines(bodyText)]

\* The text of a successful fetch: the header lines and the body.  final_url
\* is there when the final URL is set and differs from the requested one.
Document(cleanTitle, url, finalUrl, tips, bodyText) ==
    [kind |-> "document",
     title |-> ToYamlPlainString(cleanTitle),
     start_url |-> url,
     final_url |-> IF finalUrl # url THEN <<finalUrl>> ELSE <<>>,
     cookie_expired_tips |-> tips,
     body |-> CompressBlankLines(bodyText)]

\* The remediation text of the CallTool handler: the Reason line when the
\* error has a message, and the url of step 1 (the placeholder when empty).
Friendly(message, url) ==
    [kind |-> "friendly",
     reason |-> message,
     hasReason |-> Len(message) > 0,
     loginAt |-> url]

\* The text returned when url is missing.
MissingUrlText == [kind |-> "error", text |-> "Error: URL parameter is required"]

\* request.params.arguments left out of the request.
NoArgs == [given |-> FALSE]

\* No url among the arguments.
NoUrl == [given |-> FALSE, parses |-> FALSE, host |-> <<>>, pathname |-> <<>>]

\* args.url || '' in the handler's catch.
UrlOfArgs(a) == IF a.given THEN a.url ELSE NoUrl

\* url || 'about:blank'
UrlOrBlank(url) == IF url.given THEN url ELSE AboutBlank

-----------------------------------------------------------------------------
(* One fetch invocation, step by step                                      *)

E_detached == <<"E", "x", "e", "c", "u", "t", "i", "o", "n", " ", "c", "o", "n", "t", "e", "x", "t", " ", "w", "a", "s", " ", "d", "e", "s", "t", "r", "o", "y", "e", "d", ",", " ", "f", "r", "a", "m", "e", " ", "g", "o", "t", " ", "d", "e", "t", "a", "c", "h", "e", "d", ".">>
E_closed == <<"T", "a", "r", "g", "e", "t", " ", "c", "l", "o", "s", "e", "d">>
E_timeout == <<"N", "a", "v", "i", "g", "a", "t", "i", "o", "n", " ", "t", "i", "m", "e", "o", "u", "t", " ", "e", "x", "c", "e", "e", "d", "e", "d">>
E_launch == <<"C", "o", "u", "l", "d", " ", "n", "o", "t", " ", "f", "i", "n", "d", " ", "C", "h", "r", "o", "m", "e">>
E_invalidUrl == <<"I", "n", "v", "a", "l", "i", "d", " ", "U", "R", "L">>
E_destructure == <<"C", "a", "n", "n", "o", "t", " ", "d", "e", "s", "t", "r", "u", "c", "t", "u", "r", "e", " ", "p", "r", "o", "p", "e", "r", "t", "y", " ", "'", "u", "r", "l", "'">>
E_protocol == <<"P", "r", "o", "t", "o", "c", "o", "l", " ", "e", "r", "r", "o", "r">>
T_notFound == <<"N", "o", "t", " ", "F", "o", "u", "n", "d">>
T_ok == <<"O", "K">>
T_home == <<" ", "H", "o", "m", "e", "\n", "P", "a", "g", "e", " ">>
P_ab == <<"/", "a", "/", "b">>
P_q == <<"/", "a", " ", "b", "/", "c", "_", "d">>
H_wall == <<"<", "p", ">", "P", "l", "e", "a", "s", "e", " ", "S", "I", "G", "N", " ", "i", "n", "<", "/", "p", ">">>
H_plain == <<"<", "p", ">", "h", "i", "<", "/", "p", ">">>
H_part == <<"<", "b", ">", "p", "a", "r", "t", "<", "/", "b", ">">>
S_bodyOpen == <<"<", "h", "t", "m", "l", ">", "<", "t", "i", "t", "l", "e", ">", "t", "<", "/", "t", "i", "t", "l", "e", ">", "<", "b", "o", "d", "y", ">">>
S_bodyClose == <<"<", "/", "b", "o", "d", "y", ">", "<", "/", "h", "t", "m", "l", ">">>

FetchNames == {F_x, F_plain, F_nodom}

\* An unreadable file; a file with a dated cookie, a cookie without a name,
\* an undated cookie and a localStorage entry; a file whose only cookie has
\* no value and whose localStorage is empty.
FetchFile ==
    FileData(<<Cookie("sid", "v1", D_dotx, "", 1), Cookie("", "v0", D_dotx, "/", 0),
               Cookie("tok", "t1", D_x, "/app", 0)>>,
             LocalStorage([k \in {"theme"} |-> "dark"]))

FetchContents ==
    { Corrupt,
      FetchFile,
      FileData(<<Cookie("sid", "", D_dotx, "/", 0)>>, LocalStorage(<<>>)) }

MaxFetchFiles == 1

\* COOKIE_DIR with at most MaxFetchFiles files when a fetch is invoked.
FetchDirs ==
    UNION { [N -> FetchContents] :
              N \in {S \in SUBSET FetchNames : Cardinality(S) <= MaxFetchFiles} }

\* The rule table with the one rule of x.com.
RulesOfX == <<[domain |-> D_x, rule |-> RuleFor(D_x)]>>

FetchRuleTables ==
    { <<>>,
      RulesOfX,
      <<[domain |-> D_subx, rule |-> RuleFor(D_subx)]>> }

\* The empty directory, and the directories of one file of x.com.
SampleDirs == {d \in FetchDirs : DOMAIN d \subseteq {F_x}}

\* The set-ups a fetch is run in: every directory under the rules of x.com,
\* and every rule table over the sample directories.
FetchSetups ==
    {[dir |-> d, rules |-> RulesOfX] : d \in FetchDirs}
        \cup {[dir |-> d, rules |-> t] : d \in SampleDirs, t \in FetchRuleTables}

FetchUrls == {Url(D_x, P_ab), Url(D_subx, P_q)}

WaitFors == {"", "#w"}

\* The arguments of a tools/call request.
FetchArgs ==
    {NoArgs} \cup
    {[given |-> TRUE, url |-> u, waitFor |-> w] :
        u \in FetchUrls \cup {NoUrl, BadUrl}, w \in WaitFors}

\* What the site may answer to the navigation: the response status, the URL
\* the page ends on, the body it renders and its title.
Site(status, statusText, finalUrl, body) ==
    [status |-> status, statusText |-> statusText, finalUrl |-> finalUrl,
     body |-> body, title |-> T_home]

\* page.url() of a document served at url: the URL as the browser writes it,
\* the host in lower case and the path percent-encoded.
Href(url) == Url(UrlHostname(url), UrlPathname(url))

Sites(url) ==
    {Site(200, T_ok, f, b) : f \in {Href(url), Url(D_y, P_root)}, b \in {H_wall, H_plain}}
        \cup {Site(404, T_notFound, Href(url), H_plain)}

\* The elements the active selector may match, as their inner HTML.
Matches == {<<>>, <<H_part>>, <<H_part, H_plain>>, << <<>> >>}

\* Errors a page operation may reject with.
PageErrors == {E_detached, E_protocol}

inputVars == <<cookieDir, domainRules, now, prevScan, prevCookieData, request, invocations, scrolling>>
credVars == <<args, scan, cookieData, hostname, hasExpired>>
outcomeVars == <<thrown, saved, result, pages>>

Init ==
    /\ \E setup \in FetchSetups :
          /\ cookieDir = setup.dir
          /\ domainRules = setup.rules
    /\ now = MsPerSecond + 1
    /\ scan = NotYet
    /\ cookieData = NotYet
    /\ prevScan = NotYet
    /\ prevCookieData = NotYet
    /\ hostname = <<>>
    /\ hasExpired = NotYet
    /\ args = NotYet
    /\ domainRule = NotYet
    /\ FetchIdle

\* The record of one savePageContent call: what it was given, whether the
\* file system took it (io) and what it returned (ok, path).
SaveCall(url, content, isError, io, s) ==
    [request |-> request, url |-> url, content |-> content, isError |-> isError,
     at |-> now, io |-> io, ok |-> s.ok, path |-> s.path]

\* The catch of the CallTool handler, the fetch having thrown an error with
\* this message: the remediation text is built, saved as an error page and
\* returned.  The browser is left as it is.
Fail(a, message) ==
    /\ thrown' = [at |-> pc, message |-> message]
    /\ \E io \in IoOutcomes :
          LET url == UrlOfArgs(a)
              friendly == Friendly(message, url)
              s == SavePageContent(pages, UrlOrBlank(url), friendly, TRUE, now, io)
          IN /\ result' = friendly
             /\ saved' = Append(saved, SaveCall(UrlOrBlank(url), friendly, TRUE, io, s))
             /\ pages' = s.pages
    /\ pc' = "done"

\* The request arrives: arguments destructured, url tested and parsed, the
\* credential files merged and the expiry of the merged cookies checked.
Invoke ==
    /\ pc = "idle"
    /\ trace' = Append(trace, pc)
    /\ \E a \in FetchArgs :
          /\ args' = a
          /\ IF ~a.given
             THEN /\ Fail(a, E_destructure)
                  /\ UNCHANGED <<scan, cookieData, hostname, hasExpired>>
             ELSE IF ~a.url.given
             THEN /\ result' = MissingUrlText
                  /\ pc' = "done"
                  /\ UNCHANGED <<thrown, saved, pages>>
                  /\ UNCHANGED <<scan, cookieData, hostname, hasExpired>>
             ELSE IF ~a.url.parses
             THEN /\ Fail(a, E_invalidUrl)
                  /\ UNCHANGED <<scan, cookieData, hostname, hasExpired>>
             ELSE \E listing \in Listings(cookieDir) :
                     LET merged == LoadAndMergeAllCookies(cookieDir, listing)
                         domain == UrlHostname(a.url)
                     IN /\ scan' = [listing |-> listing]
                        /\ cookieData' = merged
                        /\ hostname' = domain
                        /\ hasExpired' =
                              IF merged # Null
                              THEN [value |-> IsCookieExpiredForDomain(merged, domain, now)]
                              ELSE NotYet
                        /\ pc' = "launch"
                        /\ UNCHANGED outcomeVars
    /\ UNCHANGED <<browser, page, setItems, raised, pageClosed, cookiesSet, lsScript, targetSelector,
                   snapshot, cleanContent>>
    /\ UNCHANGED <<matched, domainRule, inputVars>>

\* puppeteer.launch
Launch ==
    /\ pc = "launch"
    /\ trace' = Append(trace, pc)
    /\ \E launched \in BOOLEAN :
          IF launched
          THEN /\ browser' = "open"
               /\ pc' = "newPage"
               /\ UNCHANGED outcomeVars
          ELSE /\ Fail(args, E_launch)
               /\ UNCHANGED browser
    /\ UNCHANGED <<page, setItems, raised, pageClosed, cookiesSet, lsScript, targetSelector,
                   snapshot, cleanContent>>
    /\ UNCHANGED <<matched, domainRule, inputVars, credVars>>

\* browser.newPage and the page set-up: viewport, user agent, start-up script.
NewPage ==
    /\ pc = "newPage"
    /\ trace' = Append(trace, pc)
    /\ \E created \in BOOLEAN :
          IF created
          THEN /\ pc' = "setCookies"
               /\ UNCHANGED outcomeVars
          ELSE Fail(args, E_protocol)
    /\ UNCHANGED <<browser, page, setItems, raised, pageClosed, cookiesSet, lsScript, targetSelector,
                   snapshot, cleanContent>>
    /\ UNCHANGED <<matched, domainRule, inputVars, credVars>>

\* The cookies are handed to the browser context in one call.  When the
\* call rejects, the error is swallowed; how many of the entries the browser
\* had taken by then is not known: none, or the first few.
SetCookies ==
    /\ pc = "setCookies"
    /\ trace' = Append(trace, pc)
    /\ IF HasCookies(cookieData) /\ Len(CookiesToSet(cookieData.cookies)) > 0
       THEN \E taken \in 0..Len(CookiesToSet(cookieData.cookies)) :
               cookiesSet' = SubSeq(CookiesToSet(cookieData.cookies), 1, taken)
       ELSE UNCHANGED cookiesSet
    /\ pc' = "registerLs"
    /\ UNCHANGED outcomeVars
    /\ UNCHANGED <<browser, page, setItems, raised, pageClosed, lsScript, targetSelector,
                   snapshot, cleanContent>>
    /\ UNCHANGED <<matched, domainRule, inputVars, credVars>>

\* The localStorage buckets are registered for every new document.
RegisterLocalStorage ==
    /\ pc = "registerLs"
    /\ trace' = Append(trace, pc)
    /\ IF HasLocalStorage(cookieData)
       THEN \E registered \in BOOLEAN :
               IF registered
               THEN /\ lsScript' = [byDomain |-> cookieData.localStorageByDomain]
                    /\ pc' = "navigate"
                    /\ UNCHANGED outcomeVars
               ELSE /\ Fail(args, E_protocol)
                    /\ UNCHANGED lsScript
       ELSE /\ pc' = "navigate"
            /\ UNCHANGED lsScript
            /\ UNCHANGED outcomeVars
    /\ UNCHANGED <<browser, page, setItems, raised, pageClosed, cookiesSet, targetSelector,
                   snapshot, cleanContent>>
    /\ UNCHANGED <<matched, domainRule, inputVars, credVars>>

\* page.goto with the status of the response left untested.
NavigateAnyStatus ==
    /\ pc = "navigate"
    /\ trace' = Append(trace, pc)
    /\ \/ \E site \in Sites(args.url) :
             /\ page' = site
             /\ setItems' = IF lsScript # Null
                             THEN LoadDocument(lsScript.byDomain, UrlHostname(site.finalUrl))
                             ELSE NotYet
             /\ pc' = "resolve"
             /\ UNCHANGED outcomeVars
       \/ /\ Fail(args, NavigationErrorMessage(E_timeout))
          /\ UNCHANGED <<page, setItems>>
    /\ UNCHANGED <<browser, raised, pageClosed, cookiesSet, lsScript, targetSelector,
                   snapshot, cleanContent>>
    /\ UNCHANGED <<matched, domainRule, inputVars, credVars>>

\* page.goto called once more after a rejected call.
NavigateRetry ==
    /\ pc = "navigate"
    /\ trace' = Append(trace, pc)
    /\ \/ \E site \in Sites(args.url) :
             /\ page' = site
             /\ setItems' = IF lsScript # Null
                             THEN LoadDocument(lsScript.byDomain, UrlHostname(site.finalUrl))
                             ELSE NotYet
             /\ IF site.status >= HttpErrorStatus
                THEN Fail(args, NavigationErrorMessage(
                                    HttpErrorMessage(site.status, site.statusText)))
                ELSE /\ pc' = "resolve"
                     /\ UNCHANGED outcomeVars
       \/ /\ IF Len(SelectSeq(trace, LAMBDA p : p = "navigate")) < 1
             THEN /\ pc' = "navigate"
                  /\ UNCHANGED outcomeVars
             ELSE Fail(args, NavigationErrorMessage(E_timeout))
          /\ UNCHANGED <<page, setItems>>
    /\ UNCHANGED <<browser, raised, pageClosed, cookiesSet, lsScript, targetSelector,
                   snapshot, cleanContent>>
    /\ UNCHANGED <<matched, domainRule, inputVars, credVars>>

\* page.goto: the document of the final url loads, the registered script
\* running in it; the response is tested; a status from HttpErrorStatus on
\* and a rejected goto are both rethrown as a navigation failure.
Navigate ==
    /\ pc = "navigate"
    /\ trace' = Append(trace, pc)
    /\ \/ \E site \in Sites(args.url) :
             /\ page' = site
             /\ setItems' = IF lsScript # Null
                             THEN LoadDocument(lsScript.byDomain, UrlHostname(site.finalUrl))
                             ELSE NotYet
             /\ IF site.status >= HttpErrorStatus
                THEN Fail(args, NavigationErrorMessage(
                                    HttpErrorMessage(site.status, site.statusText)))
                ELSE /\ pc' = "resolve"
                     /\ UNCHANGED outcomeVars
       \/ /\ Fail(args, NavigationErrorMessage(E_timeout))
          /\ UNCHANGED <<page, setItems>>
    /\ UNCHANGED <<browser, raised, pageClosed, cookiesSet, lsScript, targetSelector,
                   snapshot, cleanContent>>
    /\ UNCHANGED <<matched, domainRule, inputVars, credVars>>

E_waitTimeout == <<"W", "a", "i", "t", "i", "n", "g", " ", "f", "a", "i", "l", "e", "d">>

\* The waits that can expire or fail after the navigation: the readiness
\* wait always, the selector wait when a selector is active.
WaitsOf(selector) == IF selector = "" THEN {"ready"} ELSE {"ready", "waitForSelector"}

\* The waits after the navigation with an expired or failed wait thrown on
\* to the handler.
ResolveSelectorWaitFatal ==
    /\ pc = "resolve"
    /\ trace' = Append(trace, pc)
    /\ LET rule == GetDomainRuleForUrl(domainRules, args.url)
           selector == TargetSelector(args.waitFor, rule)
       IN /\ domainRule' = rule
          /\ targetSelector' = selector
          /\ \E failed \in SUBSET WaitsOf(selector) :
                /\ raised' = raised \cup {[at |-> w, message |-> E_waitTimeout] : w \in failed}
                /\ IF failed = {}
                   THEN /\ pc' = "scroll"
                        /\ UNCHANGED outcomeVars
                   ELSE Fail(args, E_waitTimeout)
    /\ UNCHANGED <<browser, page, setItems, pageClosed, cookiesSet, lsScript, snapshot, cleanContent>>
    /\ UNCHANGED <<matched, inputVars, credVars>>

\* The readiness wait, the rule of the url, the active selector and the wait
\* for it: a wait that expires or fails is caught where it is made and the
\* fetch goes on.
ResolveSelector ==
    /\ pc = "resolve"
    /\ trace' = Append(trace, pc)
    /\ LET rule == GetDomainRuleForUrl(domainRules, args.url)
           selector == TargetSelector(args.waitFor, rule)
       IN /\ domainRule' = rule
          /\ targetSelector' = selector
          /\ \E failed \in SUBSET WaitsOf(selector) :
                raised' = raised \cup {[at |-> w, message |-> E_waitTimeout] : w \in failed}
    /\ pc' = "scroll"
    /\ UNCHANGED outcomeVars
    /\ UNCHANGED <<browser, page, setItems, pageClosed, cookiesSet, lsScript, snapshot, cleanContent>>
    /\ UNCHANGED <<matched, inputVars, credVars>>

\* The scroll simulation: skipped on a closed page; an error whose message
\* includes 'detached' is swallowed, any other is rethrown.
Scroll ==
    /\ pc = "scroll"
    /\ trace' = Append(trace, pc)
    /\ IF pageClosed
       THEN /\ pc' = "capture"
            /\ UNCHANGED raised
            /\ UNCHANGED outcomeVars
       ELSE \E error \in PageErrors \cup {<<>>} :
               /\ raised' = IF error = <<>> THEN raised
                             ELSE raised \cup {[at |-> "scroll", message |-> error]}
               /\ IF error = <<>> \/ IsDetached(error)
                  THEN /\ pc' = "capture"
                       /\ UNCHANGED outcomeVars
                  ELSE Fail(args, error)
    /\ UNCHANGED <<browser, page, setItems, pageClosed, cookiesSet, lsScript, targetSelector,
                   snapshot, cleanContent>>
    /\ UNCHANGED <<matched, domainRule, inputVars, credVars>>

\* page.content() and page.title(): they reject on a closed page.
Capture ==
    /\ pc = "capture"
    /\ trace' = Append(trace, pc)
    /\ IF pageClosed
       THEN /\ Fail(args, E_closed)
            /\ UNCHANGED snapshot
       ELSE /\ snapshot' = [content |-> S_bodyOpen \o page.body \o S_bodyClose,
                            title |-> page.title]
            /\ pc' = "extract"
            /\ UNCHANGED outcomeVars
    /\ UNCHANGED <<browser, page, setItems, raised, pageClosed, cookiesSet, lsScript, targetSelector,
                   cleanContent>>
    /\ UNCHANGED <<matched, domainRule, inputVars, credVars>>

\* cleanContent with nothing for a body.
FallbackEmpty(title) == [title |-> title, bodyText |-> <<>>]

\* cleanContent when the page can no longer be queried: the converted
\* snapshot, under the title page.title() still gives ('' when it rejects).
Fallback(title) == [title |-> title, bodyText |-> Html2md4llm(snapshot.content)]

\* The extraction: in the page when it is open, from the snapshot when it is
\* closed or the evaluation fails with a 'detached' error; any other error
\* is rethrown.
Extract ==
    /\ pc = "extract"
    /\ trace' = Append(trace, pc)
    /\ IF pageClosed
       THEN /\ cleanContent' = Fallback(<<>>)
            /\ pc' = "finish"
            /\ UNCHANGED <<raised, matched>>
            /\ UNCHANGED outcomeVars
       ELSE \E error \in PageErrors \cup {<<>>} :
               /\ raised' = IF error = <<>> THEN raised
                             ELSE raised \cup {[at |-> "extract", message |-> error]}
               /\ IF error = <<>>
                  THEN /\ \E elements \in IF targetSelector = "" THEN {<<>>} ELSE Matches :
                             /\ matched' = [elements |-> elements]
                             /\ cleanContent' =
                                   [title |-> IF page.title # <<>> THEN page.title
                                              ELSE snapshot.title,
                                    bodyText |-> Html2md4llm(
                                        ExtractedHtml(targetSelector, elements, page.body))]
                       /\ pc' = "finish"
                       /\ UNCHANGED outcomeVars
                  ELSE IF IsDetached(error)
                  THEN /\ \E title \in {page.title, <<>>} : cleanContent' = Fallback(title)
                       /\ pc' = "finish"
                       /\ UNCHANGED matched
                       /\ UNCHANGED outcomeVars
                  ELSE /\ Fail(args, error)
                       /\ UNCHANGED <<cleanContent, matched>>
    /\ UNCHANGED <<browser, page, setItems, pageClosed, cookiesSet, lsScript, targetSelector,
                   snapshot>>
    /\ UNCHANGED <<domainRule, inputVars, credVars>>

E_save == <<"E", "A", "C", "C", "E", "S">>
E_close == <<"E", "B", "U", "S", "Y">>

\* if (browser) await browser.close(), the text built and the save s made:
\* the text is returned when the browser closes; when close() rejects the
\* handler's catch builds the remediation text, saves it as an error page
\* next to what s wrote, and returns it; the browser is then not known to
\* have closed.
CloseBrowser(textContent, s, io) ==
    \/ /\ browser' = "closed"
       /\ saved' = Append(saved, SaveCall(args.url, textContent, FALSE, io, s))
       /\ pages' = s.pages
       /\ result' = textContent
       /\ UNCHANGED thrown
    \/ \E io2 \in IoOutcomes :
          LET friendly == Friendly(E_close, args.url)
              e == SavePageContent(s.pages, UrlOrBlank(args.url), friendly, TRUE, now, io2)
          IN /\ UNCHANGED browser
             /\ thrown' = [at |-> pc, message |-> E_close]
             /\ saved' = Append(Append(saved, SaveCall(args.url, textContent, FALSE, io, s)),
                                SaveCall(UrlOrBlank(args.url), friendly, TRUE, io2, e))
             /\ pages' = e.pages
             /\ result' = friendly

\* The end of the success path with a failed save thrown on to the handler.
FinishSaveFatal ==
    /\ pc = "finish"
    /\ trace' = Append(trace, pc)
    /\ \/ LET tips == NeedsLoginState(domainRule, snapshot.content)
              textContent == Document(cleanContent.title, args.url, page.finalUrl,
                                      tips, cleanContent.bodyText)
              s == SavePageContent(pages, args.url, textContent, FALSE, now, "ok")
          IN /\ CloseBrowser(textContent, s, "ok")
             /\ pc' = "done"
       \/ /\ Fail(args, E_save)
          /\ UNCHANGED browser
    /\ UNCHANGED <<page, setItems, raised, pageClosed, cookiesSet, lsScript, targetSelector,
                   snapshot, cleanContent>>
    /\ UNCHANGED <<matched, domainRule, inputVars, credVars>>

\* The end of the success path: blank lines compressed, the markers looked
\* for in the snapshot, the header put on top, the text saved, the browser
\* closed and the text returned.
Finish ==
    /\ pc = "finish"
    /\ trace' = Append(trace, pc)
    /\ \E io \in IoOutcomes :
          LET tips == NeedsLoginState(domainRule, snapshot.content)
              textContent == Document(cleanContent.title, args.url, page.finalUrl,
                                      tips, cleanContent.bodyText)
              s == SavePageContent(pages, args.url, textContent, FALSE, now, io)
          IN CloseBrowser(textContent, s, io)
    /\ pc' = "done"
    /\ UNCHANGED <<page, setItems, raised, pageClosed, cookiesSet, lsScript, targetSelector,
                   snapshot, cleanContent>>
    /\ UNCHANGED <<matched, domainRule, inputVars, credVars>>

\* The page goes away under the fetch (its window is closed, its renderer
\* dies) some time after the navigation.
PageCloses ==
    /\ pc \in {"scroll", "scrollStep", "scrollBack", "capture", "extract"}
    /\ ~pageClosed
    /\ pageClosed' = TRUE
    /\ UNCHANGED <<pc, trace>>
    /\ UNCHANGED outcomeVars
    /\ UNCHANGED <<browser, page, setItems, raised, cookiesSet, lsScript, targetSelector,
                   snapshot, cleanContent>>
    /\ UNCHANGED <<matched, domainRule, inputVars, credVars>>

Next ==
    \/ Invoke
    \/ Launch
    \/ NewPage
    \/ SetCookies
    \/ RegisterLocalStorage
    \/ Navigate
    \/ ResolveSelector
    \/ Scroll
    \/ Capture
    \/ Extract
    \/ Finish
    \/ PageCloses

Spec == Init /\ [][Next]_vars

-----------------------------------------------------------------------------
(* Claims about one fetch invocation                                       *)

\* The invocation has ended.
Ended == pc = "done"

\* The last savePageContent call.
LastSaved == saved[Len(saved)]

\* The invocation ended in the handler's catch.
Failed == Ended /\ thrown # NotYet

\* The invocation ended with the document of the page.
Succeeded == Ended /\ thrown = NotYet /\ result.kind = "document"

\* The name carries the error suffix.
IsErrorFile(name) == EndsWith(name, S_error \o S_md)

----------------------------------------------------------------------------
(* C1: every browser a fetch invocation launched is closed by the time the *)
(* invocation ends, on every exit path: success, navigation failure, fatal *)
(* scroll or extraction error, or any other error raised after the launch. *)
Orig_C1_BrowserClosedOnEveryExit == Ended => browser # "open"

----------------------------------------------------------------------------
(* C2 as stated: whenever a fetch fails the caller gets the remediation    *)
(* message naming the reason, and a file with the _ERROR suffix is written *)
(* to the page store for the attempt.                                      *)
Orig_C2_FailureAlwaysPersisted ==
    Failed =>
        /\ result.kind = "friendly"
        /\ result.reason = thrown.message
        /\ \E f \in pages : IsErrorFile(f.name)

(* C2: whenever a fetch fails the caller gets the remediation message      *)
(* naming the reason of the failure, not an exception.  A file with the    *)
(* _ERROR suffix, holding that message, is written for the attempt exactly *)
(* when the url of the request parses (about:blank standing for a missing  *)
(* one) and the file system takes the write; otherwise no such file is     *)
(* written.                                                                *)
Thm_C2_FailureReportedAndSavedIfPossible ==
    Failed =>
        /\ result.kind = "friendly"
        /\ result.hasReason
        /\ result.reason = thrown.message
        /\ LET target == IF args.given /\ args.url.given THEN args.url ELSE AboutBlank
           IN IF target.parses /\ LastSaved.io = "ok"
              THEN /\ LastSaved.ok
                   /\ IsErrorFile(LastSaved.path)
                   /\ {f \in pages : IsErrorFile(f.name)}
                         = {[name |-> LastSaved.path, content |-> result]}
              ELSE /\ ~LastSaved.ok
                   /\ {f \in pages : IsErrorFile(f.name)} = {}

\* The navigation was answered with HTTP 404 and the error page was written.
Wit_C2_NotFoundSaved ==
    /\ Failed
    /\ thrown.at = "navigate"
    /\ page # NotYet
    /\ page.status = 404
    /\ Includes(result.reason, <<ToString(page.status)>> \o S_colon \o page.statusText)
    /\ LastSaved.ok
    /\ \E f \in pages : IsErrorFile(f.name)

----------------------------------------------------------------------------
(* C7: the merge returns null exactly when no listed file name matches the *)
(* credential pattern or the matching files contribute no valid cookie and *)
(* no localStorage bucket, and a set otherwise; after a null merge the     *)
(* fetch goes on without credentials: no cookie is set, no localStorage is *)
(* registered and no error comes from the credential steps.                *)
Thm_C7_NullIffNoMaterial ==
    Merged =>
        /\ (cookieData = Null) <=>
              \/ Len(ScannedFiles) = 0
              \/ \A f \in 1..Len(ScannedFiles) :
                     /\ Len(CookiesIn(ScannedFiles[f])) = 0
                     /\ ~HasBucket(ScannedFiles[f])
        /\ cookieData = Null =>
              /\ pc # "idle"
              /\ cookiesSet = <<>>
              /\ lsScript = Null
              /\ thrown # NotYet => thrown.at \notin {"idle", "setCookies", "registerLs"}

\* A readable credential file was scanned, the merge was null all the same,
\* and the fetch returned the document of the page.
Wit_C7_NullMergeFetchSucceeds ==
    /\ Merged
    /\ cookieData = Null
    /\ \E f \in 1..Len(ScannedFiles) : Readable(ScannedFiles[f])
    /\ Succeeded

----------------------------------------------------------------------------
(* C10: the active selector is the caller's waitFor when it is given; else *)
(* the selector of the rule resolved for the requested url when that rule  *)
(* has one; else none.  The rule in force is the one resolved for the      *)
(* requested url, and the login notice of the document follows its markers *)
(* whatever selector is active.                                            *)
Thm_C10_CallerSelectorFirst ==
    domainRule # NotYet =>
        /\ domainRule = GetDomainRuleForUrl(domainRules, args.url)
        /\ args.waitFor # "" => targetSelector = args.waitFor
        /\ (args.waitFor = "" /\ domainRule.selector # "") =>
              targetSelector = domainRule.selector
        /\ (args.waitFor = "" /\ domainRule.selector = "") => targetSelector = ""
        /\ Succeeded =>
              (result.cookie_expired_tips <=>
                  \E i \in 1..Len(domainRule.blockedIfContains) :
                      Includes(ToLowerCase(snapshot.content),
                               ToLowerCase(domainRule.blockedIfContains[i])))

\* The caller gave a selector, the rule of the url has another one and a
\* marker the page contains: the caller's selector is active and the
\* document carries the notice.
Wit_C10_CallerOverridesRule ==
    /\ domainRule # NotYet
    /\ args.waitFor = "#w"
    /\ domainRule.selector = "#x"
    /\ targetSelector = "#w"
    /\ Succeeded
    /\ result.cookie_expired_tips

----------------------------------------------------------------------------
(* C11: every entry the browser takes is built from a cookie of a scanned  *)
(* file that has a name, a value and a domain; the entries taken are the   *)
(* entries of the merged cookies or, when setting them failed, the first   *)
(* few or none of them; and the fetch never ends in an error of the cookie *)
(* step.                                                                   *)
Thm_C11_OnlyWellFormedCookiesSet ==
    /\ \A i \in 1..Len(cookiesSet) :
          /\ cookiesSet[i].name # ""
          /\ cookiesSet[i].value # ""
          /\ cookiesSet[i].domain # <<>>
          /\ \E f \in 1..Len(ScannedFiles) :
                \E n \in 1..Len(CookiesIn(ScannedFiles[f])) :
                    LET c == CookiesIn(ScannedFiles[f])[n]
                    IN cookiesSet[i] =
                          [name |-> c.name, value |-> c.value, domain |-> c.domain,
                           path |-> IF c.path = "" THEN "/" ELSE c.path,
                           expires |-> c.expirationDate]
    /\ \A i \in 1..Len(cookiesSet) :
          /\ i <= Len(MergedCookies(cookieData))
          /\ cookiesSet[i].name = MergedCookies(cookieData)[i].name
          /\ cookiesSet[i].domain = MergedCookies(cookieData)[i].domain
    /\ thrown # NotYet => thrown.at # "setCookies"

\* A scanned file holds a cookie without a name or a value, setting the
\* cookies failed with only some of them taken, and the fetch returned the
\* document of the page.
Wit_C11_PartialCookiesFetchSucceeds ==
    /\ Succeeded
    /\ \E f \in 1..Len(ScannedFiles) :
          /\ Readable(ScannedFiles[f])
          /\ Len(CookiesIn(ScannedFiles[f])) < Len(cookieDir[ScannedFiles[f]].cookies)
    /\ Len(cookiesSet) > 0
    /\ Len(cookiesSet) < Len(MergedCookies(cookieData))

-----------------------------------------------------------------------------
(* The localStorage script on its own: files are merged, then documents of *)
(* several host names load with the merged buckets registered.             *)

F_subx == <<"s", "u", "b", ".", "x", ".", "c", "o", "m", "_", "c", "o", "o", "k", "i", "e", "s", ".", "j", "s", "o", "n">>
F_w3x == <<"w", "w", "w", ".", "w", "w", "w", ".", "x", ".", "c", "o", "m", "_", "c", "o", "o", "k", "i", "e", "s", ".", "j", "s", "o", "n">>
D_w3x == <<"w", "w", "w", ".", "w", "w", "w", ".", "x", ".", "c", "o", "m">>

StorageNames == {F_x, F_wwwx, F_subx, F_y, F_w3x}

StorageContents ==
    { FileData(<<>>, LocalStorage([k \in {"theme"} |-> "dark"])),
      FileData(<<>>, LocalStorage([k \in {"theme", "lang"} |->
                                      IF k = "theme" THEN "light" ELSE "en"])) }

StorageDirs ==
    UNION { [N -> StorageContents] :
              N \in {S \in SUBSET StorageNames : Cardinality(S) <= MaxFiles} }

\* location.hostname of the documents: lower case, as the browser gives it.
StorageHosts == {D_x, D_wwwx, D_subx, D_xx, D_y, D_w3x, <<>>}

InitStorage ==
    /\ cookieDir \in StorageDirs
    /\ scan = NotYet
    /\ cookieData = NotYet
    /\ prevScan = NotYet
    /\ prevCookieData = NotYet
    /\ hostname = <<>>
    /\ now = 0
    /\ hasExpired = NotYet
    /\ domainRules = <<>>
    /\ args = NotYet
    /\ domainRule = NotYet
    /\ FetchIdle

\* A document loads in a session that registered the merged buckets.
DocumentLoads ==
    /\ cookieData \notin {NotYet, Null}
    /\ HasLocalStorage(cookieData)
    /\ \E h \in StorageHosts :
          /\ hostname' = h
          /\ setItems' = LoadDocument(cookieData.localStorageByDomain, h)
    /\ UNCHANGED <<now, hasExpired>>
    /\ UNCHANGED mergeVars
    /\ UNCHANGED ruleVars
    /\ UNCHANGED <<pc, browser, page, pageClosed, cookiesSet, lsScript, targetSelector,
                   snapshot, cleanContent, thrown, saved, result, pages, raised, matched,
                   request, trace, invocations, scrolling>>

\* The merge of the session: it comes before the first document.
MergeForSession == setItems = NotYet /\ MergeOnce

NextStorage == MergeForSession \/ DocumentLoads

SpecStorage == InitStorage /\ [][NextStorage]_vars

\* The bucket stored under domain d belongs to a document of host name h: d
\* is h without a leading www., or h ends with a dot followed by d.
BucketMatches(d, h) == EqualOrDotSuffix(BareHost(h), d)

\* Some batch the script wrote holds the entry k -> v.
Wrote(k, v) ==
    \E i \in 1..Len(setItems.written) :
        k \in DOMAIN setItems.written[i] /\ setItems.written[i][k] = v

----------------------------------------------------------------------------
(* C12 as stated: in every document loaded, an entry is written only if it *)
(* belongs to a bucket whose stored domain is the host name (www.          *)
(* stripped) or a dot-delimited parent of it, and every entry of every     *)
(* such bucket is written.                                                 *)
Orig_C12_ExactlyMatchingBucketsWritten ==
    setItems # NotYet =>
        LET buckets == MergedBuckets(cookieData) IN
        /\ \A i \in 1..Len(setItems.written) :
              \A k \in DOMAIN setItems.written[i] :
                  \E b \in 1..Len(buckets) :
                      /\ BucketMatches(buckets[b].domain, setItems.host)
                      /\ k \in DOMAIN buckets[b].items
                      /\ buckets[b].items[k] = setItems.written[i][k]
        /\ \A b \in 1..Len(buckets) :
              BucketMatches(buckets[b].domain, setItems.host) =>
                  \A k \in DOMAIN buckets[b].items : Wrote(k, buckets[b].items[k])

(* C12, the half that holds: in every document loaded, an entry is written *)
(* only if it belongs to a bucket whose stored domain is the host name     *)
(* (www. stripped) or a dot-delimited parent of it: no entry of a bucket   *)
(* of another domain gets into the document's localStorage.                *)
Thm_C12_OnlyMatchingBucketsWritten ==
    setItems # NotYet =>
        LET buckets == MergedBuckets(cookieData) IN
        \A i \in 1..Len(setItems.written) :
            \A k \in DOMAIN setItems.written[i] :
                \E b \in 1..Len(buckets) :
                    /\ BucketMatches(buckets[b].domain, setItems.host)
                    /\ k \in DOMAIN buckets[b].items
                    /\ buckets[b].items[k] = setItems.written[i][k]

\* A document of a sub-domain loaded while the buckets of its parent domain
\* and of another domain were registered: the first was written, the second
\* was not.
Wit_C12_ParentWrittenOtherNot ==
    /\ setItems # NotYet
    /\ setItems.host = D_subx
    /\ \E b, c \in 1..Len(MergedBuckets(cookieData)) :
          /\ MergedBuckets(cookieData)[b].domain = D_x
          /\ MergedBuckets(cookieData)[c].domain = D_y
    /\ Len(setItems.written) = 1

----------------------------------------------------------------------------
(* C13: an error raised during the scroll simulation is swallowed when it  *)
(* is the frame-detached error, the fetch going on to the capture and the  *)
(* extraction; any other error raised there ends the fetch, which reports  *)
(* that error.                                                             *)
Thm_C13_ScrollDetachedSwallowed ==
    \A e \in raised :
        e.at = "scroll" =>
            IF e.message = E_detached
            THEN /\ pc \in {"capture", "extract", "finish", "done"}
                 /\ thrown # NotYet => thrown.at # "scroll"
            ELSE /\ Failed
                 /\ thrown = [at |-> "scroll", message |-> e.message]
                 /\ result.kind = "friendly"
                 /\ result.reason = e.message

\* The scroll ran into the frame-detached error and the fetch returned the
\* document of the page.
Wit_C13_DetachedScrollFetchSucceeds ==
    /\ [at |-> "scroll", message |-> E_detached] \in raised
    /\ Succeeded

----------------------------------------------------------------------------
\* The inner HTML of the first n elements, the horizontal-rule marker
\* between each two.
RECURSIVE Joined(_, _)
Joined(es, n) ==
    IF n = 0 THEN <<>>
    ELSE IF n = 1 THEN es[1]
    ELSE Joined(es, n - 1) \o S_hr \o es[n]

\* The extraction ran in the live page.
ExtractedLive == matched # NotYet /\ cleanContent # NotYet

(* C14 as stated: the extraction uses the inner HTML of all the elements   *)
(* the active selector matches, joined by the horizontal-rule marker, when *)
(* a selector is active and matches at least one element, and the inner    *)
(* HTML of the body exactly when no selector is active or it matches none. *)
Orig_C14_BodyExactlyWhenNoMatch ==
    ExtractedLive =>
        cleanContent.bodyText =
            Html2md4llm(IF targetSelector # "" /\ Len(matched.elements) > 0
                        THEN Joined(matched.elements, Len(matched.elements))
                        ELSE page.body)

(* C14, the part that holds: the extraction uses the joined inner HTML of  *)
(* the matched elements when a selector is active, matches at least one    *)
(* element and the joined inner HTML is not empty; it uses the inner HTML  *)
(* of the body when no selector is active or it matches none; and a        *)
(* selector that matches nothing raises no error.                          *)
Thm_C14_JoinedWhenNotEmpty ==
    ExtractedLive =>
        LET joined == Joined(matched.elements, Len(matched.elements)) IN
        /\ (targetSelector # "" /\ Len(matched.elements) > 0 /\ joined # <<>>) =>
              cleanContent.bodyText = Html2md4llm(joined)
        /\ (targetSelector = "" \/ Len(matched.elements) = 0) =>
              cleanContent.bodyText = Html2md4llm(page.body)
        /\ Len(matched.elements) = 0 =>
              /\ \A e \in raised : e.at # "extract"
              /\ thrown # NotYet => thrown.at # "extract"

\* The active selector matched two elements and the document returned holds
\* their joined content and not the body.
Wit_C14_TwoElementsJoined ==
    /\ ExtractedLive
    /\ Succeeded
    /\ Len(matched.elements) = 2
    /\ result.body # CompressBlankLines(Html2md4llm(page.body))
    /\ Includes(result.body, <<"\n", "\n">>)

----------------------------------------------------------------------------
\* The page became unusable during the extraction: it was closed after the
\* snapshot was taken, or the extraction ran into the frame-detached error.
UnusableInExtraction ==
    /\ snapshot # NotYet
    /\ pc \in {"finish", "done"}
    /\ pageClosed \/ [at |-> "extract", message |-> E_detached] \in raised

----------------------------------------------------------------------------
\* marker occurs in text at some offset, letter case disregarded.
OccursIgnoringCase(text, marker) ==
    \E off \in 0..(Len(text) - Len(marker)) :
        \A j \in 1..Len(marker) : LowerChar(text[off + j]) = LowerChar(marker[j])

\* One of the markers of the resolved rule occurs in text.
SomeMarkerIn(text) ==
    \E i \in 1..Len(domainRule.blockedIfContains) :
        OccursIgnoringCase(text, domainRule.blockedIfContains[i])

(* C16: the text of a fetch carries the login-session notice exactly when  *)
(* the whole raw HTML of the page, letter case disregarded, contains one   *)
(* of the blockedIfContains markers of the resolved domain rule; what the  *)
(* extracted fragment contains does not matter, and with no marker         *)
(* configured the notice is not set.                                       *)
Thm_C16_NoticeIffMarkerInRawHtml ==
    Succeeded =>
        /\ result.cookie_expired_tips <=> SomeMarkerIn(snapshot.content)
        /\ Len(domainRule.blockedIfContains) = 0 => ~result.cookie_expired_tips

\* The notice is set by a marker written in another letter case than the
\* page writes it, found in the raw HTML and not in the extracted fragment.
Wit_C16_MarkerOutsideFragment ==
    /\ Succeeded
    /\ result.cookie_expired_tips
    /\ ~SomeMarkerIn(cleanContent.bodyText)
    /\ \A i \in 1..Len(domainRule.blockedIfContains) :
          ~Includes(snapshot.content, domainRule.blockedIfContains[i])

----------------------------------------------------------------------------
\* text holds three newlines in a row.
HasTripleNewline(text) ==
    \E i \in 1..(Len(text) - 2) : \A j \in 0..2 : text[i + j] = "\n"

(* C17: the text of every successful fetch begins with a header that       *)
(* carries the title and the requested URL as start_url, carries final_url *)
(* exactly when the URL the page ended at is not the requested URL as it   *)
(* was written, and carries cookie_expired_tips exactly when a marker of   *)
(* the rule was found in the raw HTML; the normalised body follows.        *)
Thm_C17_HeaderFields ==
    Succeeded =>
        /\ result.kind = "document"
        /\ result.title = ToYamlPlainString(cleanContent.title)
        /\ \A i \in 1..Len(result.title) : result.title[i] # "\n"
        /\ result.start_url = args.url
        /\ result.final_url # <<>> <=> page.finalUrl # args.url
        /\ result.final_url # <<>> => result.final_url = <<page.finalUrl>>
        /\ result.cookie_expired_tips <=> SomeMarkerIn(snapshot.content)
        /\ result.body = CompressBlankLines(cleanContent.bodyText)
        /\ ~HasTripleNewline(result.body)

\* A fetch redirected to another host whose page shows a login wall: the
\* header carries all four fields.
Wit_C17_RedirectedToLoginWall ==
    /\ Succeeded
    /\ result.final_url = <<Url(D_y, P_root)>>
    /\ result.start_url = args.url
    /\ result.cookie_expired_tips
    /\ Len(result.title) > 0

\* A fetch that stayed where it was sent and met no marker: the header
\* carries the title and start_url only.
Wit_C17_PlainHeader ==
    /\ Succeeded
    /\ result.final_url = <<>>
    /\ ~result.cookie_expired_tips

----------------------------------------------------------------------------
(* The end of the success path, over converted bodies of every shape       *)

MaxBody == 7

BodyChars == {"\n", "a", "b"}

\* What html2md4llm may give for a body: any text.
Bodies == UNION {[1..n -> BodyChars] : n \in 0..MaxBody}

\* A fetch of the plain page of x.com, no credential files and no rule, the
\* extraction just done.
InitCompress ==
    /\ cookieDir = <<>>
    /\ domainRules = <<>>
    /\ now = MsPerSecond + 1
    /\ scan = [listing |-> <<>>]
    /\ cookieData = Null
    /\ prevScan = NotYet
    /\ prevCookieData = NotYet
    /\ hostname = D_x
    /\ hasExpired = NotYet
    /\ args = [given |-> TRUE, url |-> Url(D_x, P_ab), waitFor |-> ""]
    /\ domainRule = EmptyRule
    /\ pc = "finish"
    /\ browser = "open"
    /\ page = Site(200, T_ok, Url(D_x, P_ab), H_plain)
    /\ pageClosed = FALSE
    /\ cookiesSet = <<>>
    /\ lsScript = Null
    /\ targetSelector = ""
    /\ snapshot = [content |-> S_bodyOpen \o H_plain \o S_bodyClose, title |-> T_home]
    /\ \E b \in Bodies : cleanContent = [title |-> T_home, bodyText |-> b]
    /\ thrown = NotYet
    /\ saved = <<>>
    /\ result = NotYet
    /\ pages = {}
    /\ setItems = NotYet
    /\ raised = {}
    /\ matched = [elements |-> <<>>]
    /\ request = 1
    /\ trace = StepsBefore(pc)
    /\ invocations = <<>>
    /\ scrolling = NotYet

NextCompress == Finish

SpecCompress == InitCompress /\ [][NextCompress]_vars

\* The places of text that hold something else than a newline.
NotNewline(text) == {i \in 1..Len(text) : text[i] # "\n"}

\* The k-th place of P, counting from the left.
Nth(P, k) == CHOOSE i \in P : Cardinality({j \in P : j < i}) = k - 1

\* The number of newlines between the (k-1)-th and the k-th character of
\* text that is not a newline; before the first one for k = 1 and after the
\* last one for k one more than their number.
GapBefore(text, k) ==
    LET P == NotNewline(text)
        lo == IF k = 1 THEN 0 ELSE Nth(P, k - 1)
        hi == IF k = Cardinality(P) + 1 THEN Len(text) + 1 ELSE Nth(P, k)
    IN hi - lo - 1

(* C18: the compression of blank lines puts exactly two newlines in the    *)
(* place of every run of three or more newlines of the converted body and  *)
(* leaves shorter runs and every other character as they are; no run of    *)
(* three or more newlines is left, and compressing the compressed body     *)
(* again changes nothing.                                                  *)
Thm_C18_RunsOfNewlinesCompressed ==
    Succeeded =>
        LET in == cleanContent.bodyText
            out == result.body
            n == Cardinality(NotNewline(in))
        IN /\ Cardinality(NotNewline(out)) = n
           /\ \A k \in 1..n : out[Nth(NotNewline(out), k)] = in[Nth(NotNewline(in), k)]
           /\ \A k \in 1..(n + 1) :
                 GapBefore(out, k) = IF GapBefore(in, k) >= 3 THEN 2 ELSE GapBefore(in, k)
           /\ ~HasTripleNewline(out)
           /\ CompressBlankLines(out) = out

\* A body with four newlines in a row and one at its end: the four became
\* two and the one was kept.
Wit_C18_FourNewlinesBecomeTwo ==
    /\ Succeeded
    /\ cleanContent.bodyText = <<"a", "\n", "\n", "\n", "\n", "b", "\n">>
    /\ result.body = <<"a", "\n", "\n", "b", "\n">>

----------------------------------------------------------------------------
(* C19: a save that fails (the directory cannot be made, the path cannot   *)
(* be derived from the URL, the file cannot be written) raises nothing: it *)
(* gives no path and writes nothing, and the invocation ends as it would   *)
(* have with the save done, the extracted page returned as the document    *)
(* (unless closing the browser fails afterwards) and a failure returned as *)
(* its remediation text.                                                   *)
Thm_C19_SaveFailureNotFatal ==
    /\ (saved # <<>> /\ (LastSaved.io = "error" \/ ~UrlOrBlank(UrlOfArgs(args)).parses)) =>
          /\ ~LastSaved.ok
          /\ LastSaved.path = <<>>
          /\ \A f \in pages : IsErrorFile(f.name) # LastSaved.isError
          /\ Ended
    /\ (Ended /\ cleanContent # NotYet) =>
          \/ Succeeded /\ ~LastSaved.isError
          \/ Failed /\ thrown = [at |-> "finish", message |-> E_close]
    /\ Succeeded =>
          result = [kind |-> "document",
                    title |-> ToYamlPlainString(cleanContent.title),
                    start_url |-> args.url,
                    final_url |-> IF page.finalUrl # args.url
                                  THEN <<page.finalUrl>> ELSE <<>>,
                    cookie_expired_tips |-> SomeMarkerIn(snapshot.content),
                    body |-> CompressBlankLines(cleanContent.bodyText)]
    /\ Failed =>
          /\ result.kind = "friendly"
          /\ result.reason = thrown.message
          /\ thrown.at = "finish" => thrown.message = E_close

\* The page was extracted, the write of its file failed, and the caller got
\* the document all the same.
Wit_C19_WriteFailsDocumentReturned ==
    /\ Succeeded
    /\ LastSaved.io = "error"
    /\ ~LastSaved.ok
    /\ pages = {}
    /\ Len(result.body) > 0

\* The fetch failed on a URL no path can be derived from: nothing is saved
\* and the remediation text is returned.
Wit_C19_NoPathForErrorPage ==
    /\ Failed
    /\ LastSaved.io = "ok"
    /\ ~LastSaved.ok
    /\ result.kind = "friendly"

----------------------------------------------------------------------------
(* The page store under one request after another                          *)

MaxRequests == 2

\* The first request, for a page of a site without credential files or
\* rules, brought to its extraction.
InitPages ==
    /\ cookieDir = <<>>
    /\ domainRules = <<>>
    /\ now = MsPerSecond + 1
    /\ scan = [listing |-> <<>>]
    /\ cookieData = Null
    /\ prevScan = NotYet
    /\ prevCookieData = NotYet
    /\ hasExpired = NotYet
    /\ domainRule = EmptyRule
    /\ \E u \in FetchUrls :
          /\ args = [given |-> TRUE, url |-> u, waitFor |-> ""]
          /\ hostname = UrlHostname(u)
          /\ page = Site(200, T_ok, Href(u), H_plain)
    /\ pc = "extract"
    /\ browser = "open"
    /\ pageClosed = FALSE
    /\ cookiesSet = <<>>
    /\ lsScript = Null
    /\ targetSelector = ""
    /\ snapshot = [content |-> S_bodyOpen \o H_plain \o S_bodyClose, title |-> T_home]
    /\ cleanContent = NotYet
    /\ thrown = NotYet
    /\ saved = <<>>
    /\ result = NotYet
    /\ pages = {}
    /\ setItems = NotYet
    /\ raised = {}
    /\ matched = NotYet
    /\ request = 1
    /\ trace = StepsBefore(pc)
    /\ invocations = <<>>
    /\ scrolling = NotYet

\* The next tools/call request, a second or a day after the one before it,
\* brought to its extraction with a browser of its own.
NextRequest ==
    /\ pc = "done"
    /\ request < MaxRequests
    /\ request' = request + 1
    /\ \E later \in {MsPerSecond, MsPerDay} : now' = now + later
    /\ \E u \in FetchUrls :
          /\ args' = [given |-> TRUE, url |-> u, waitFor |-> ""]
          /\ hostname' = UrlHostname(u)
          /\ page' = Site(200, T_ok, Href(u), H_plain)
    /\ pc' = "extract"
    /\ browser' = "open"
    /\ pageClosed' = FALSE
    /\ snapshot' = [content |-> S_bodyOpen \o H_plain \o S_bodyClose, title |-> T_home]
    /\ cleanContent' = NotYet
    /\ thrown' = NotYet
    /\ result' = NotYet
    /\ raised' = {}
    /\ matched' = NotYet
    /\ trace' = StepsBefore("extract")
    /\ UNCHANGED <<saved, pages, invocations, scrolling>>
    /\ UNCHANGED <<cookiesSet, lsScript, targetSelector, setItems, domainRule, hasExpired>>
    /\ UNCHANGED <<cookieDir, domainRules, scan, cookieData, prevScan, prevCookieData>>

NextPages == Extract \/ Finish \/ NextRequest

SpecPages == InitPages /\ [][NextPages]_vars

\* The two instants fall on the same calendar day.
SameDay(t1, t2) == t1 \div MsPerDay = t2 \div MsPerDay

\* The i-th save wrote its file.
Written(i) == saved[i].ok

\* Every file of the store is what the last save written to its path left
\* there, and no path holds two files.
StoreHoldsLastWrites ==
    /\ \A f \in pages :
          \E j \in DOMAIN saved :
             /\ Written(j)
             /\ saved[j].path = f.name
             /\ saved[j].content = f.content
             /\ \A k \in DOMAIN saved : (k > j /\ Written(k)) => saved[k].path # f.name
    /\ \A f, g \in pages : f.name = g.name => f = g
    /\ \A j \in DOMAIN saved : Written(j) => \E f \in pages : f.name = saved[j].path

\* Two saves of the same URL, day and status have one path.
SameSaveSamePath ==
    \A i, j \in DOMAIN saved :
        (/\ Written(i) /\ Written(j)
         /\ saved[i].url = saved[j].url
         /\ saved[i].isError = saved[j].isError
         /\ SameDay(saved[i].at, saved[j].at)) => saved[i].path = saved[j].path

\* A success save and an error save of the same URL have different paths.
StatusKeepsPathsApart ==
    \A i, j \in DOMAIN saved :
        (/\ Written(i) /\ Written(j)
         /\ saved[i].url = saved[j].url
         /\ saved[i].isError # saved[j].isError) => saved[i].path # saved[j].path

(* C20 as stated: one file per fetch: two saves for the same URL, the same *)
(* calendar day and the same status have the same path and the second      *)
(* replaces the first; a success save and an error save for the same URL   *)
(* never have the same path; and one request never writes both a success   *)
(* file and an error file.                                                 *)
Orig_C20_OneFilePerFetch ==
    /\ StoreHoldsLastWrites
    /\ SameSaveSamePath
    /\ StatusKeepsPathsApart
    /\ \A i, j \in DOMAIN saved :
          (Written(i) /\ Written(j) /\ saved[i].request = saved[j].request) =>
              saved[i].isError = saved[j].isError

(* C20: two saves for the same URL, the same calendar day and the same     *)
(* status have the same path and the second replaces the first; a success  *)
(* save and an error save for the same URL never have the same path; one   *)
(* request makes at most one save of each status, and it writes both a     *)
(* success file and an error file only when the browser failed to close    *)
(* after the success file was written.                                     *)
Thm_C20_PathsAndOverwrite ==
    /\ StoreHoldsLastWrites
    /\ SameSaveSamePath
    /\ StatusKeepsPathsApart
    /\ \A i, j \in DOMAIN saved :
          (i < j /\ saved[i].request = saved[j].request) =>
              /\ ~saved[i].isError
              /\ saved[j].isError
              /\ saved[j].content.reason = E_close

\* The same URL fetched twice on one day, a second apart, with different
\* texts: the store holds one file for it, with the second text.
Wit_C20_SecondFetchOverwrites ==
    /\ Len(saved) = 2
    /\ Written(1) /\ Written(2)
    /\ saved[1].url = saved[2].url
    /\ ~saved[1].isError /\ ~saved[2].isError
    /\ saved[1].at # saved[2].at
    /\ saved[1].content # saved[2].content
    /\ pages = {[name |-> saved[1].path, content |-> saved[2].content]}

-----------------------------------------------------------------------------
(* No retries                                                              *)

\* How many times the invocation has taken step p.
Times(p) == Len(SelectSeq(trace, LAMBDA q : q = p))

\* The error pages the handler's catch has saved.
ErrorSaves == {i \in DOMAIN saved : saved[i].isError}

\* C21: within one invocation puppeteer.launch is called at most once and
\* page.goto at most once; nothing is returned before the invocation ends,
\* and a failed invocation has gone through the handler's catch once: one
\* error text built, saved in one call and returned.
Thm_C21_NoRetries ==
    /\ Times("launch") <= 1
    /\ Times("navigate") <= 1
    /\ ~Ended => result = NotYet /\ thrown = NotYet /\ ErrorSaves = {}
    /\ Ended => result # NotYet
    /\ Failed =>
          /\ Cardinality(ErrorSaves) = 1
          /\ LastSaved.isError
          /\ result = LastSaved.content
          /\ result = Friendly(thrown.message, UrlOfArgs(args))

\* C21 witness: the navigation timed out and the fetch ended there, the
\* browser launched once and page.goto called once.
Wit_C21_TimeoutReportedOnce ==
    /\ Failed
    /\ thrown = [at |-> "navigate", message |-> NavigationErrorMessage(E_timeout)]
    /\ Times("launch") = 1
    /\ Times("navigate") = 1
    /\ Cardinality(ErrorSaves) = 1

-----------------------------------------------------------------------------
(* The waits after the navigation                                          *)

\* The waits that expired or failed in this invocation.
FailedWaits == {e.at : e \in {x \in raised : x.at \in {"ready", "waitForSelector"}}}

\* C23: a readiness wait or selector wait that expires or fails does not
\* end the fetch: the rule and the selector are resolved as without it, the
\* scroll step comes next and no error is thrown at the waits or carries
\* their message; among the waits only page.goto ends the fetch, with the
\* navigation-failed message.
Thm_C23_WaitsTolerated ==
    /\ FailedWaits # {} =>
          /\ pc = "scroll" \/ Times("scroll") = 1
          /\ targetSelector =
                TargetSelector(args.waitFor, GetDomainRuleForUrl(domainRules, args.url))
          /\ "waitForSelector" \in FailedWaits => targetSelector # ""
          /\ thrown # NotYet => thrown.message # E_waitTimeout
          /\ (pc = "finish" \/ Succeeded) => Times("extract") = 1
    /\ thrown # NotYet =>
          /\ thrown.at # "resolve"
          /\ thrown.at = "navigate" =>
                \/ thrown.message = NavigationErrorMessage(E_timeout)
                \/ /\ page # NotYet
                   /\ page.status >= HttpErrorStatus
                   /\ thrown.message = NavigationErrorMessage(
                                           HttpErrorMessage(page.status, page.statusText))

\* C23 witness: both waits expired and the fetch scrolled, extracted and
\* returned the document.
Wit_C23_BothWaitsExpiredFetchSucceeds ==
    /\ FailedWaits = {"ready", "waitForSelector"}
    /\ Succeeded
    /\ Times("scroll") = 1
    /\ Times("extract") = 1

-----------------------------------------------------------------------------
(* The phases of an invocation                                             *)

\* Step p has been taken and has not thrown.
Passed(p) == Times(p) = 1 /\ ~(thrown # NotYet /\ thrown.at = p)

\* The phase the invocation is in: 0 Idle, 1 Launched (puppeteer.launch
\* resolved), 2 PageCreated (browser.newPage and the page set-up done),
\* 3 Navigated (page.goto resolved and the status passed the test),
\* 4 ContentReady (the extraction done), 5 Closed (browser.close resolved).
PhaseNo ==
    IF browser = "closed" THEN 5
    ELSE IF Passed("extract") THEN 4
    ELSE IF Passed("navigate") THEN 3
    ELSE IF Passed("newPage") THEN 2
    ELSE IF Passed("launch") THEN 1
    ELSE 0

\* A success document is saved in this step.
SavesDocument ==
    \E i \in DOMAIN saved' : i > Len(saved) /\ ~saved'[i].isError

\* What every step of an invocation keeps to.
PhaseStep ==
    /\ ~Ended
    /\ PhaseNo' \in {PhaseNo, PhaseNo + 1}
    /\ (cookiesSet' # cookiesSet \/ lsScript' # lsScript) =>
          /\ PhaseNo = 2
          /\ PhaseNo' = 2
          /\ Times("navigate") = 0
          /\ pc' # "done" => Times("navigate")' = 0
    /\ cleanContent' # cleanContent =>
          /\ PhaseNo = 3
          /\ page.status < HttpErrorStatus
    /\ SavesDocument =>
          /\ PhaseNo = 4
          /\ page.status < HttpErrorStatus
    /\ thrown' # thrown =>
          /\ PhaseNo' = PhaseNo
          /\ pc' = "done"

\* C25: an invocation starts in Idle and every step leaves the phase as it
\* is or enters the next one; the cookies are set and the localStorage
\* script is registered in PageCreated with page.goto not yet called; the
\* content is extracted in Navigated and the success document saved in
\* ContentReady, both after a response with a status below 400; a step that
\* throws ends the invocation in the phase it was in; an ended invocation
\* takes no further step.
Thm_C25_PhasesInOrder == PhaseNo = 0 /\ [][PhaseStep]_vars

\* C25 witness: an invocation that set cookies and registered localStorage
\* went through every phase and ended in Closed with its document saved.
Wit_C25_AllPhasesPassed ==
    /\ Succeeded
    /\ PhaseNo = 5
    /\ cookiesSet # <<>>
    /\ lsScript # Null
    /\ trace = Steps
    /\ ~LastSaved.isError

-----------------------------------------------------------------------------
(* The scroll simulation, call by call                                     *)

\* The height page.setViewport gives a headless page.
ViewportHeight == 768

\* const stepSize
stepSize == 300

MaxScrollScreens == 10

\* The heights document.body.scrollHeight can have.
DocHeights == {500 + 100 * k : k \in 0..MaxScrollScreens}

\* The heights window.innerHeight can have: that of the headless viewport,
\* or that of the window of a headed browser.
InnerHeights == {ViewportHeight, 600}

\* A page has been navigated to and the selector resolved; the scroll
\* simulation is about to start on a document of some height.
InitScroll ==
    /\ cookieDir = <<>>
    /\ domainRules = <<>>
    /\ now = MsPerSecond + 1
    /\ scan = [listing |-> <<>>]
    /\ cookieData = Null
    /\ prevScan = NotYet
    /\ prevCookieData = NotYet
    /\ hasExpired = NotYet
    /\ domainRule = EmptyRule
    /\ args = [given |-> TRUE, url |-> Url(D_x, P_ab), waitFor |-> ""]
    /\ hostname = D_x
    /\ page = Site(200, T_ok, Href(Url(D_x, P_ab)), H_plain)
    /\ pc = "scroll"
    /\ browser = "open"
    /\ pageClosed = FALSE
    /\ cookiesSet = <<>>
    /\ lsScript = Null
    /\ targetSelector = ""
    /\ snapshot = NotYet
    /\ cleanContent = NotYet
    /\ thrown = NotYet
    /\ saved = <<>>
    /\ result = NotYet
    /\ pages = {}
    /\ setItems = NotYet
    /\ raised = {}
    /\ matched = NotYet
    /\ request = 1
    /\ trace = StepsBefore(pc)
    /\ invocations = <<>>
    /\ \E h \in DocHeights, v \in InnerHeights :
          scrolling = [docHeight |-> h, innerHeight |-> v, measured |-> FALSE,
                       scrollHeight |-> 0, viewportHeight |-> 0,
                       currentPosition |-> 0, calls |-> <<>>, back |-> FALSE]

\* What the scroll simulation leaves alone.
scrollFrame == <<browser, page, setItems, pageClosed, cookiesSet, lsScript, targetSelector,
                 snapshot, cleanContent, matched, domainRule, credVars,
                 cookieDir, domainRules, now, prevScan, prevCookieData, request, invocations>>

\* A page.evaluate of the scroll simulation rejected with this error: the
\* catch around the simulation swallows a 'detached' error and rethrows any
\* other.
ScrollCatch(error) ==
    /\ raised' = raised \cup {[at |-> "scroll", message |-> error]}
    /\ IF IsDetached(error)
       THEN /\ pc' = "capture"
            /\ UNCHANGED outcomeVars
       ELSE Fail(args, error)
    /\ UNCHANGED scrolling

\* The heights are read, once; the loop is entered when the document is
\* taller than the window.
ScrollMeasure ==
    /\ pc = "scroll"
    /\ trace' = Append(trace, pc)
    /\ IF pageClosed
       THEN /\ pc' = "capture"
            /\ UNCHANGED <<scrolling, raised>>
            /\ UNCHANGED outcomeVars
       ELSE \/ /\ scrolling' = [scrolling EXCEPT !.measured = TRUE,
                                                 !.scrollHeight = scrolling.docHeight,
                                                 !.viewportHeight = scrolling.innerHeight]
               /\ pc' = IF scrolling.docHeight > scrolling.innerHeight
                         THEN "scrollStep" ELSE "capture"
               /\ UNCHANGED raised
               /\ UNCHANGED outcomeVars
            \/ \E error \in PageErrors : ScrollCatch(error)
    /\ UNCHANGED scrollFrame

\* The loop with the height of the document read again at every test.
ScrollStepRemeasured ==
    /\ pc = "scrollStep"
    /\ IF scrolling.currentPosition < scrolling.docHeight - scrolling.viewportHeight
          /\ ~pageClosed
       THEN \/ /\ scrolling' =
                     [scrolling EXCEPT !.calls = Append(@, scrolling.currentPosition),
                                       !.currentPosition = @ + stepSize]
               /\ UNCHANGED <<pc, raised>>
               /\ UNCHANGED outcomeVars
            \/ \E error \in PageErrors : ScrollCatch(error)
       ELSE /\ pc' = "scrollBack"
            /\ UNCHANGED <<scrolling, raised>>
            /\ UNCHANGED outcomeVars
    /\ UNCHANGED trace
    /\ UNCHANGED scrollFrame

\* One test of the while condition and, when it holds and the page is open,
\* one scrollTo and one step forward.
ScrollStep ==
    /\ pc = "scrollStep"
    /\ IF scrolling.currentPosition < scrolling.scrollHeight - scrolling.viewportHeight
          /\ ~pageClosed
       THEN \/ /\ scrolling' =
                     [scrolling EXCEPT !.calls = Append(@, scrolling.currentPosition),
                                       !.currentPosition = @ + stepSize]
               /\ UNCHANGED <<pc, raised>>
               /\ UNCHANGED outcomeVars
            \/ \E error \in PageErrors : ScrollCatch(error)
       ELSE /\ pc' = "scrollBack"
            /\ UNCHANGED <<scrolling, raised>>
            /\ UNCHANGED outcomeVars
    /\ UNCHANGED trace
    /\ UNCHANGED scrollFrame

\* After the loop: back to the top when the page is still open.
ScrollBack ==
    /\ pc = "scrollBack"
    /\ IF pageClosed
       THEN /\ pc' = "capture"
            /\ UNCHANGED <<scrolling, raised>>
            /\ UNCHANGED outcomeVars
       ELSE \/ /\ scrolling' = [scrolling EXCEPT !.back = TRUE]
               /\ pc' = "capture"
               /\ UNCHANGED raised
               /\ UNCHANGED outcomeVars
            \/ \E error \in PageErrors : ScrollCatch(error)
    /\ UNCHANGED trace
    /\ UNCHANGED scrollFrame

\* Content loaded while the page is being scrolled makes the document taller.
PageGrows ==
    /\ pc = "scrollStep"
    /\ ~pageClosed
    /\ \E h \in DocHeights :
          /\ h > scrolling.docHeight
          /\ scrolling' = [scrolling EXCEPT !.docHeight = h]
    /\ UNCHANGED <<pc, trace, raised>>
    /\ UNCHANGED outcomeVars
    /\ UNCHANGED scrollFrame

NextScroll == ScrollMeasure \/ ScrollStep \/ ScrollBack \/ PageGrows \/ PageCloses

\* Every await of the simulation settles: the timers fire and page.evaluate
\* resolves or rejects.
SpecScroll ==
    InitScroll /\ [][NextScroll]_vars /\ WF_vars(ScrollMeasure \/ ScrollStep \/ ScrollBack)

\* The simulation is over: the fetch is at the capture, or has ended.
ScrollOver == pc \in {"capture", "done"}

\* The distance from the top of the document to the scroll position that
\* shows its bottom, by the heights measured.
ScrollRange == scrolling.scrollHeight - scrolling.viewportHeight

\* The number of steps of stepSize that cover a distance d.
StepsToCover(d) == (d + stepSize - 1) \div stepSize

\* The simulation ran undisturbed: the page stayed open and no evaluation
\* rejected.
Undisturbed == ~pageClosed /\ raised = {}

\* Some scrollTo of the loop asked for the bottom of the document as it was
\* measured, or for a position below it.
ReachedBottom == \E i \in DOMAIN scrolling.calls : scrolling.calls[i] >= ScrollRange

(* C26 as stated: a document taller than the window is scrolled in steps   *)
(* of 300 pixels whose number is fixed by the height measured before the   *)
(* loop, the bottom is reached before the loop stops and the page is then  *)
(* scrolled back to the top; a document no taller than the window is not   *)
(* scrolled.                                                               *)
Orig_C26_ScrollsToBottomAndBack ==
    (ScrollOver /\ scrolling.measured) =>
        /\ Len(scrolling.calls) <= StepsToCover(ScrollRange) + 1
        /\ (ScrollRange > 0 /\ Undisturbed) => ReachedBottom /\ scrolling.back
        /\ ScrollRange <= 0 => scrolling.calls = <<>> /\ ~scrolling.back

(* C26: the loop makes at most as many scrollTo calls as steps of 300      *)
(* pixels cover the range measured before it, however the document grows   *)
(* meanwhile; the calls ask for 0, 300, 600, ... and every one of them for *)
(* a position short of the bottom; undisturbed, the loop makes all of them *)
(* and the page is scrolled back to the top; a closed page is scrolled no  *)
(* further and not back; a document no taller than the window is not       *)
(* scrolled; and the simulation always comes to an end.                    *)
Thm_C26_BoundedStepsShortOfBottom ==
    /\ [](scrolling.measured =>
            /\ Len(scrolling.calls) <= StepsToCover(ScrollRange)
            /\ \A i \in DOMAIN scrolling.calls :
                  /\ scrolling.calls[i] = (i - 1) * stepSize
                  /\ scrolling.calls[i] < ScrollRange
            /\ ~ReachedBottom
            /\ scrolling.back => ScrollRange > 0
            /\ ScrollRange <= 0 => scrolling.calls = <<>>
            /\ (ScrollOver /\ Undisturbed /\ ScrollRange > 0) =>
                  /\ Len(scrolling.calls) = StepsToCover(ScrollRange)
                  /\ scrolling.back)
    /\ <>ScrollOver

\* C26 witness: a document 300 pixels taller than the window was scrolled
\* undisturbed: the loop called scrollTo once, for the top, and the page
\* was scrolled back to the top.
Wit_C26_OneStepNeverLeavesTop ==
    /\ ScrollOver
    /\ Undisturbed
    /\ scrolling.measured
    /\ ScrollRange = stepSize
    /\ scrolling.calls = <<0>>
    /\ scrolling.back

\* C26 witness: the document grew while it was scrolled and the loop kept
\* to the steps of the height measured before it.
Wit_C26_GrowthIgnored ==
    /\ ScrollOver
    /\ Undisturbed
    /\ scrolling.measured
    /\ scrolling.docHeight > scrolling.scrollHeight
    /\ Len(scrolling.calls) = StepsToCover(ScrollRange)

-----------------------------------------------------------------------------
(* A fetch before and after the expiry date of a cookie                    *)

\* The clock readings a fetch is invoked at: just before and just after the
\* instant the dated cookie of the sample file expires.
Clocks == {MsPerSecond - 1, MsPerSecond + 1}

\* The directories of one file of x.com under the rules of x.com, a fetch
\* invoked at either clock reading.
InitClock ==
    /\ cookieDir \in SampleDirs
    /\ domainRules = RulesOfX
    /\ now \in Clocks
    /\ scan = NotYet
    /\ cookieData = NotYet
    /\ prevScan = NotYet
    /\ prevCookieData = NotYet
    /\ hostname = <<>>
    /\ hasExpired = NotYet
    /\ args = NotYet
    /\ domainRule = NotYet
    /\ FetchIdle

SpecClock == InitClock /\ [][Next]_vars

\* The merged cookies that have a name, a value and a domain.
ValidMerged == SelectSeq(MergedCookies(cookieData), WellFormed)

\* Entry e is dated and its date has passed.
PastDate(e) == e.expires > 0 /\ e.expires * MsPerSecond < now

(* C27: whatever the expiry check found, the entries handed to the browser *)
(* are the entries of all well-formed merged cookies in order, the dated   *)
(* and past ones included with their dates; the script registered carries  *)
(* all merged localStorage buckets; the check ends no fetch; the notice in *)
(* the document is there exactly when a marker of the rule is in the raw   *)
(* HTML; and the file saved holds the document returned.                   *)
Thm_C27_ExpiryCheckChangesNoOutput ==
    hasExpired \in {[value |-> TRUE], [value |-> FALSE]} =>
        /\ \A i \in 1..Len(cookiesSet) :
              /\ i <= Len(ValidMerged)
              /\ cookiesSet[i].name = ValidMerged[i].name
              /\ cookiesSet[i].value = ValidMerged[i].value
              /\ cookiesSet[i].domain = ValidMerged[i].domain
              /\ cookiesSet[i].expires = ValidMerged[i].expirationDate
        /\ lsScript # Null => lsScript.byDomain = MergedBuckets(cookieData)
        /\ (Passed("registerLs") /\ Len(MergedBuckets(cookieData)) > 0) => lsScript # Null
        /\ thrown # NotYet => thrown.at # "idle"
        /\ Succeeded =>
              /\ result.cookie_expired_tips <=> SomeMarkerIn(snapshot.content)
              /\ LastSaved.content = result
              /\ ~LastSaved.isError

\* C27 witness: the check reported an expired cookie for the host; the
\* expired cookie was handed to the browser all the same, the localStorage
\* script was registered, and the document returned carries no notice.
Wit_C27_ExpiredCookieSetNoNotice ==
    /\ hasExpired = [value |-> TRUE]
    /\ Succeeded
    /\ \E i \in 1..Len(cookiesSet) : PastDate(cookiesSet[i])
    /\ lsScript # Null
    /\ ~result.cookie_expired_tips
    /\ LastSaved.content = result

\* C27 witness: the same file read before the cookie expired: the check
\* reported nothing, the same entries were handed over, and the document
\* carries the notice because the page shows a marker.
Wit_C27_FreshCookieWithNotice ==
    /\ hasExpired = [value |-> FALSE]
    /\ Succeeded
    /\ Len(cookiesSet) = Len(ValidMerged)
    /\ \E i \in 1..Len(cookiesSet) :
          cookiesSet[i].expires > 0 /\ ~PastDate(cookiesSet[i])
    /\ result.cookie_expired_tips

-----------------------------------------------------------------------------
(* Several tools/call requests served side by side                         *)
(* Each call of the handler runs from one await to the next without being  *)
(* interrupted; between two awaits of one call the steps of the others may *)
(* run, and the credential files may change on disk.  What the calls have  *)
(* in common is COOKIE_DIR, PAGES_DIR, the rule table and the clock; all   *)
(* the rest is local to a call and kept in its record of invocations.      *)

MaxSessions == 2

\* The page every invocation is asked for.
SessionUrls == {Url(D_x, P_ab)}

\* The states of COOKIE_DIR: empty, or holding the sample file of x.com.
SessionDirs == {d \in SampleDirs : \A n \in DOMAIN d : d[n] = FetchFile}

\* What the site may answer to an invocation.
SessionSites(url) ==
    {Site(200, T_ok, Href(url), b) : b \in {H_wall, H_plain}}
        \cup {Site(404, T_notFound, Href(url), H_plain)}

\* What the invocations leave alone.
sessionFrame == <<scan, cookieData, prevScan, prevCookieData, hostname, now, hasExpired,
                  domainRules, args, domainRule, pc, browser, page, pageClosed, cookiesSet,
                  lsScript, targetSelector, snapshot, cleanContent, thrown, result, setItems,
                  raised, matched, request, trace, scrolling>>

\* No request has arrived.
InitSessions ==
    /\ cookieDir \in SessionDirs
    /\ domainRules = <<>>
    /\ now = MsPerSecond + 1
    /\ scan = NotYet
    /\ cookieData = NotYet
    /\ prevScan = NotYet
    /\ prevCookieData = NotYet
    /\ hostname = <<>>
    /\ hasExpired = NotYet
    /\ args = NotYet
    /\ domainRule = NotYet
    /\ FetchIdle

\* cookieManager.loadAndMergeAllCookies() with the merge of the first
\* invocation kept and handed to the later ones.
MergeCached(dir, listing) ==
    IF Len(invocations) > 0 THEN invocations[1].cookieData
    ELSE LoadAndMergeAllCookies(dir, listing)

\* cookieManager.loadAndMergeAllCookies() as an invocation calls it: the
\* directory is listed and every credential file read, at every call.
MergeFresh(dir, listing) == LoadAndMergeAllCookies(dir, listing)

\* The browser puppeteer.launch gives when every invocation uses the one
\* launched first.
BrowserShared(launched) == IF launched = {} THEN 1 ELSE CHOOSE b \in launched : TRUE

\* The browser puppeteer.launch gives: a new process at every call, told
\* from the ones launched before by its number.
BrowserLaunched(launched) == Cardinality(launched) + 1

\* The browsers the invocations have launched.
Browsers == {invocations[j].browser : j \in {k \in DOMAIN invocations : invocations[k].browser # 0}}

\* The record of one savePageContent call made by invocation i.
SessionSave(i, url, content, isError, io, s) ==
    [request |-> i, url |-> url, content |-> content, isError |-> isError,
     at |-> now, io |-> io, ok |-> s.ok, path |-> s.path]

\* The file of this name in the store, as [content], or Null.
FileAt(store, name) ==
    IF \E g \in store : g.name = name
    THEN [content |-> (CHOOSE g \in store : g.name = name).content]
    ELSE Null

\* A request arrives: the url is parsed and the credential files are merged
\* before the first await.
Arrive ==
    /\ Len(invocations) < MaxSessions
    /\ \E u \in SessionUrls, listing \in Listings(cookieDir) :
          invocations' = Append(invocations,
              [pc |-> "fetch", url |-> u, dirRead |-> cookieDir, listing |-> listing,
               cookieData |-> MergeFresh(cookieDir, listing),
               browser |-> 0, closed |-> FALSE, cookiesSet |-> <<>>, lsScript |-> Null,
               page |-> NotYet, text |-> NotYet, wrote |-> NotYet, thrown |-> NotYet,
               result |-> NotYet, fileAtReturn |-> NotYet,
               after |-> {j \in DOMAIN invocations : invocations[j].pc = "done"}])
    /\ UNCHANGED <<cookieDir, pages, saved>>
    /\ UNCHANGED sessionFrame

\* Invocation i between its first await and its save: it launches its
\* browser, hands it its cookies and its localStorage script, navigates,
\* waits, scrolls, extracts and builds its text.  Nothing of this touches
\* what another invocation can see, so it is one step here; the launch or
\* the navigation may fail and the error goes to the handler.
Fetch(i) ==
    /\ invocations[i].pc = "fetch"
    /\ LET r == invocations[i]
           entries == IF HasCookies(r.cookieData) THEN CookiesToSet(r.cookieData.cookies)
                      ELSE <<>>
           script == IF HasLocalStorage(r.cookieData)
                     THEN [byDomain |-> r.cookieData.localStorageByDomain]
                     ELSE Null
       IN
       \/ invocations' = [invocations EXCEPT ![i].thrown = [message |-> E_launch],
                                               ![i].pc = "report"]
       \/ \E site \in SessionSites(r.url) :
             IF site.status >= HttpErrorStatus
             THEN invocations' =
                     [invocations EXCEPT
                         ![i].browser = BrowserLaunched(Browsers),
                         ![i].cookiesSet = entries,
                         ![i].lsScript = script,
                         ![i].page = site,
                         ![i].thrown = [message |-> NavigationErrorMessage(
                                            HttpErrorMessage(site.status, site.statusText))],
                         ![i].pc = "report"]
             ELSE LET rule == GetDomainRuleForUrl(domainRules, r.url)
                      raw == S_bodyOpen \o site.body \o S_bodyClose
                  IN invocations' =
                        [invocations EXCEPT
                            ![i].browser = BrowserLaunched(Browsers),
                            ![i].cookiesSet = entries,
                            ![i].lsScript = script,
                            ![i].page = site,
                            ![i].text = Document(site.title, r.url, site.finalUrl,
                                                 NeedsLoginState(rule, raw),
                                                 Html2md4llm(site.body)),
                            ![i].pc = "persist"]
    /\ UNCHANGED <<cookieDir, pages, saved>>
    /\ UNCHANGED sessionFrame

\* Invocation i saves its text.  (The file system takes every write of
\* the invocations; a refused write is followed in Spec.)
Persist(i) ==
    /\ invocations[i].pc = "persist"
    /\ LET r == invocations[i]
           s == SavePageContent(pages, r.url, r.text, FALSE, now, "ok")
       IN /\ pages' = s.pages
          /\ saved' = Append(saved, SessionSave(i, r.url, r.text, FALSE, "ok", s))
          /\ invocations' = [invocations EXCEPT ![i].wrote = [ok |-> s.ok, path |-> s.path],
                                                  ![i].pc = "close"]
    /\ UNCHANGED cookieDir
    /\ UNCHANGED sessionFrame

\* browser.close() of invocation i: the text is returned, or close()
\* rejects and the error goes to the handler.
Close(i) ==
    /\ invocations[i].pc = "close"
    /\ LET r == invocations[i] IN
       \/ invocations' =
              [invocations EXCEPT
                  ![i].closed = TRUE,
                  ![i].result = r.text,
                  ![i].fileAtReturn = IF r.wrote.ok THEN FileAt(pages, r.wrote.path)
                                      ELSE Null,
                  ![i].pc = "done"]
       \/ invocations' = [invocations EXCEPT ![i].thrown = [message |-> E_close],
                                               ![i].pc = "report"]
    /\ UNCHANGED <<cookieDir, pages, saved>>
    /\ UNCHANGED sessionFrame

\* The catch of the handler for invocation i: the remediation text is
\* built, saved as an error page and returned.
Report(i) ==
    /\ invocations[i].pc = "report"
    /\ LET r == invocations[i]
           friendly == Friendly(r.thrown.message, r.url)
           s == SavePageContent(pages, UrlOrBlank(r.url), friendly, TRUE, now, "ok")
       IN /\ pages' = s.pages
          /\ saved' = Append(saved, SessionSave(i, UrlOrBlank(r.url), friendly, TRUE, "ok", s))
          /\ invocations' =
                 [invocations EXCEPT
                     ![i].result = friendly,
                     ![i].fileAtReturn = IF s.ok THEN FileAt(s.pages, s.path) ELSE Null,
                     ![i].pc = "done"]
    /\ UNCHANGED cookieDir
    /\ UNCHANGED sessionFrame

\* The credential files change on disk: the extension saves a login state,
\* or the user removes one.  (Only the changes made while a request is
\* still to arrive are followed: no one reads the directory after that.)
FilesChange ==
    /\ Len(invocations) < MaxSessions
    /\ \E d \in SessionDirs :
          /\ d # cookieDir
          /\ cookieDir' = d
    /\ UNCHANGED <<invocations, pages, saved>>
    /\ UNCHANGED sessionFrame

NextSessions ==
    \/ Arrive
    \/ \E i \in DOMAIN invocations :
          \/ Fetch(i)
          \/ Persist(i)
          \/ Close(i)
          \/ Report(i)
    \/ FilesChange

SpecSessions == InitSessions /\ [][NextSessions]_vars

\* Invocation i has returned.
Returned(i) == invocations[i].pc = "done"

\* The cookies of the files of directory d that have a name, a value and a
\* domain, as the entries built for them.
EntriesOfFiles(d) ==
    { [name |-> c.name, value |-> c.value, domain |-> c.domain,
       path |-> IF c.path = "" THEN "/" ELSE c.path, expires |-> c.expirationDate] :
        c \in UNION { {d[n].cookies[k] : k \in {m \in DOMAIN d[n].cookies : WellFormed(d[n].cookies[m])}} :
                        n \in {m \in DOMAIN d : IsCookieFileName(m) /\ d[m] # Corrupt} } }

\* The entries in sequence q.
Range(q) == {q[k] : k \in DOMAIN q}

\* For every state of the directory: the entries of its files, and its merge
\* under every listing.
EntriesOfDir == {<<d, EntriesOfFiles(d)>> : d \in SessionDirs}
MergeOfDir ==
    UNION {{<<d, l, LoadAndMergeAllCookies(d, l)>> : l \in Listings(d)} : d \in SessionDirs}

(* C24: what an invocation hands to its browser is merged from the files   *)
(* as they were when it arrived, whatever an earlier invocation had read:  *)
(* its merged set is the merge of that directory, its cookie entries are   *)
(* the well-formed cookies of those files, its script carries their        *)
(* localStorage buckets, and from an empty directory it applies nothing.   *)
Thm_C24_MergedAfreshAtEveryInvocation ==
    \A i \in DOMAIN invocations :
        LET r == invocations[i] IN
        /\ <<r.dirRead, r.listing, r.cookieData>> \in MergeOfDir
        /\ r.browser = 0 => r.cookiesSet = <<>>
        /\ r.browser # 0 => <<r.dirRead, Range(r.cookiesSet)>> \in EntriesOfDir
        /\ r.lsScript # Null => r.lsScript.byDomain = MergedBuckets(r.cookieData)
        /\ DOMAIN r.dirRead = {} =>
              /\ r.cookieData = Null
              /\ r.cookiesSet = <<>>
              /\ r.lsScript = Null

\* C24 witness: the first fetch read the sample file and set its cookies;
\* the file was removed; the second fetch, arrived after the first had
\* returned, set no cookie and registered no script.
Wit_C24_SecondFetchAfterFileRemoved ==
    /\ Len(invocations) = 2
    /\ invocations[2].after = {1}
    /\ Returned(2)
    /\ invocations[1].cookiesSet # <<>>
    /\ invocations[1].lsScript # Null
    /\ invocations[2].browser # 0
    /\ invocations[2].cookiesSet = <<>>
    /\ invocations[2].lsScript = Null

\* C24 witness: the file appeared between the two fetches and the second
\* applied it.
Wit_C24_SecondFetchAfterFileSaved ==
    /\ Len(invocations) = 2
    /\ invocations[2].after = {1}
    /\ Returned(2)
    /\ invocations[1].browser # 0
    /\ invocations[1].cookiesSet = <<>>
    /\ invocations[2].cookiesSet # <<>>
    /\ invocations[2].lsScript # Null

-----------------------------------------------------------------------------
\* The body text and the title line every page of the sites gives.
BodyOfHtml == {<<b, CompressBlankLines(Html2md4llm(b))>> : b \in {H_wall, H_plain}}
TitleOfPage == {<<t, ToYamlPlainString(t)>> : t \in {T_home}}

\* What invocation i returns and writes follows from its own url, its own
\* page and its own error alone.
OwnOutput(i) ==
    LET r == invocations[i] IN
    /\ r.text # NotYet =>
          /\ r.text.kind = "document"
          /\ r.text.start_url = r.url
          /\ <<r.page.title, r.text.title>> \in TitleOfPage
          /\ <<r.page.body, r.text.body>> \in BodyOfHtml
    /\ Returned(i) =>
          IF r.thrown = NotYet
          THEN r.result = r.text
          ELSE /\ r.result.kind = "friendly"
               /\ r.result.reason = r.thrown.message
               /\ r.result.loginAt = r.url
    /\ \A k \in DOMAIN saved :
          saved[k].request = i =>
              /\ saved[k].url = r.url
              /\ IF saved[k].isError
                 THEN Returned(i) /\ saved[k].content = r.result /\ r.thrown # NotYet
                 ELSE saved[k].content = r.text

\* Two invocations never have the same browser.
OwnBrowsers ==
    \A i, j \in DOMAIN invocations :
        (i # j /\ invocations[i].browser # 0) =>
            invocations[i].browser # invocations[j].browser

\* The credentials of an invocation are those of the directory it read.
OwnCredentials ==
    \A i \in DOMAIN invocations :
        LET r == invocations[i] IN
        /\ r.browser = 0 => r.cookiesSet = <<>>
        /\ r.browser # 0 => <<r.dirRead, Range(r.cookiesSet)>> \in EntriesOfDir

\* No file is written by two invocations.
NoFileWrittenByTwo ==
    \A k, m \in DOMAIN saved :
        (Written(k) /\ Written(m) /\ saved[k].request # saved[m].request) =>
            saved[k].path # saved[m].path

\* When an invocation returns its document, the file it saved holds it.
FileHeldAtReturn ==
    \A i \in DOMAIN invocations :
        LET r == invocations[i] IN
        (Returned(i) /\ r.thrown = NotYet /\ r.wrote.ok) =>
            r.fileAtReturn = [content |-> r.text]

(* C22 as stated: every invocation has its own browser and credentials,    *)
(* the invocations have no state in common that any of them changes, and   *)
(* what each returns and has on disk is what it would be had it run alone. *)
Orig_C22_NothingSharedButCredentialFiles ==
    /\ OwnBrowsers
    /\ OwnCredentials
    /\ \A i \in DOMAIN invocations : OwnOutput(i)
    /\ NoFileWrittenByTwo
    /\ FileHeldAtReturn

(* C22: every invocation has its own browser and its own credentials, and  *)
(* the text it returns and the text it writes follow from its own url and  *)
(* page alone, however the steps of the others fall between its own; the   *)
(* page store is common to them: every file holds what the last write to   *)
(* its path left there, whichever invocation made it.                      *)
Thm_C22_OwnBrowserOwnTextCommonStore ==
    /\ OwnBrowsers
    /\ OwnCredentials
    /\ \A i \in DOMAIN invocations : OwnOutput(i)
    /\ StoreHoldsLastWrites

\* C22 witness: two invocations of the same url ran side by side on pages
\* of different content; each returned its own document, and when the
\* first returned, the file it had saved held the document of the second.
Wit_C22_FileOverwrittenBeforeReturn ==
    /\ Len(invocations) = 2
    /\ Returned(1)
    /\ Returned(2)
    /\ invocations[1].thrown = NotYet
    /\ invocations[2].thrown = NotYet
    /\ invocations[1].browser # invocations[2].browser
    /\ invocations[1].result = invocations[1].text
    /\ invocations[2].result = invocations[2].text
    /\ invocations[1].text # invocations[2].text
    /\ invocations[1].fileAtReturn = [content |-> invocations[2].text]

====
